---- MODULE Spec2Model ----
(***************************************************************************)
(* A model of the wdc WebDriver client: the driver client's session        *)
(* lifecycle (init with its two retry loops, the command surface behind     *)
(* the stream mutex, Drop) and the HTTP codec's streaming of a response     *)
(* body to disk.                                                            *)
(***************************************************************************)
EXTENDS Integers, Sequences, FiniteSets, TLC

(***************************************************************************)
(* Bounds of the model.                                                     *)
(***************************************************************************)
\* largest ready_timeout (seconds) among those whose budget fits in a u32
MaxReadyTimeout == 0
\* largest number of session ids pushed to a client before it is dropped
MaxSessions == 3
\* number of command calls made on the shared client, over all threads
MaxCalls == 2
\* largest Content-Length of a streamed body
MaxBodyLen == 3
\* largest insig_head and insig_tail
MaxInsig == 2
\* largest number of bytes one socket read returns (the 1 MiB read_buf, scaled)
MaxRead == 2
\* largest number of bytes of a WebSocket payload
MaxPayloadLen == 3
\* largest MaxFrameLen setting
MaxMaxFrameLen == 2
\* set_message_data calls on one WebSocketMessage
MaxSetCalls == 3
\* largest number of calls made on one capability request
MaxRequCalls == 2

(***************************************************************************)
(* Program constants.                                                       *)
(***************************************************************************)
\* ready_timeout * 1000000, with 1000000 = 15625 * 64 (genericdrv.rs:907)
MicrosPerSecOdd == 15625
MicrosPerSecPow2 == 64
\* let wait_each_round = 100u64 (genericdrv.rs:909)
wait_each_round == 100
\* ready_timeout is a u32 and the product is computed in u32 before "as u64":
\* 2^32 = 67108864 * 64
U32ModulusDivPow2 == 67108864

VARIABLES
    \* ---- the client (WebDrvClient / BidiClient) ----
    rstream,      \* Option<Arc<Mutex<TcpStream>>>: "None" or "Some"
    ws_stream,    \* BidiClient.ws_stream: "None" or "Some"
    ssids,        \* Vec<String> (ssmetas of the BiDi variant)
    \* ---- one run of init / init_singl / init_singl_ff / init_singl_ch / bidi::init ----
    variant,      \* which of the five functions runs
    ready_timeout,
    ipc,          \* position of the run
    ready_timeout_in_micros,
    already_wait,
    ready_or_not,
    rdy_err,      \* Option<WdcError> of init_singl_ff / init_singl_ch
    sess_err,     \* Option<WdcError> of init_singl_ff / init_singl_ch
    rdy_res,      \* what the last is_ready() call returned
    sess_res,     \* what the last session-creation call returned
    sent,         \* the request written to the stream by the last step
    last_resp,    \* the response read from the stream by the last step
    init_res,     \* what the run returned
    retried,      \* some round of the run slept and went round again
    cmd_res,      \* what the last command on the returned client returned
    \* ---- Drop for WebDrvClient / BidiClient ----
    dpc,          \* "live", "dropping", "dropped" or "panicked"
    drop_i,       \* the loop variable i of drop
    drop_len,     \* self.ssids.len(), evaluated once for the range 0..len
    drop_ssids,   \* the session list as it was when drop began
    drop_log,     \* the del_session calls that wrote a request, with their results
    drop_failed,  \* some del_session call returned an Err
    drop_panic,   \* what panicked: "index", "expect", "unwrap", or "" for nothing
    \* ---- commands called from several threads on one client ----
    tpc,          \* per thread: "idle", "lock", "locked", "sent" or "panicked"
    tcmd,         \* per thread: the command of its current (or last) call
    tcall,        \* per thread: how many calls it has made
    tsent,        \* per thread: requests written during its current (or last) call
    tresp,        \* per thread: the response its last call read
    tres,         \* per thread: what its last call returned
    stream_lock,  \* the Mutex around the TcpStream: its holder, and poisoned or not
    ncalls,       \* calls made so far, over all threads
    lock_waiters, \* the threads inside lock(), in the order they called it
    wire_reqs,    \* the requests written to the stream, in order
    wire_resps,   \* the responses the driver wrote to the stream, in order
    consumed,     \* the responses read from the stream, in order, with their readers
    \* ---- HttpResponseParts::from_stream with a persistence path ----
    spc,          \* "status", "loop", "returned" or "panicked"
    status_code,  \* the 4 status code bytes
    msgbody_len,  \* Content-Length
    insig_head,
    insig_tail,
    insig_head_tmp,
    insig_tail_tmp,
    peer_left,    \* bytes the peer still delivers before it closes
    stream_pos,   \* body bytes read from the socket so far
    nleft,
    pbody_file,   \* the file's content: the positions (from 1) of the body bytes in it
    persist_res,  \* what from_stream returned
    pbody_path,   \* Option<&str>: "None" or "Some"
    reason,       \* the reason phrase of the status line
    msgbody,      \* template.msgbody: the positions (from 1) of the body bytes in it
    \* ---- a WebSocketMessage: set_message_data, send_through, from_stream ----
    ws_pc,        \* "new", "framing", "encoded", "sent", "decoded", "failed", ...
    ws_origin,    \* who encodes: a BiDi command ("bidi") or any caller ("codec")
    size_kinds,   \* [bool; 3]: S, M, L allowed
    bin_data,     \* the payload
    setts,        \* Vec<WspSett>
    ws_sett,      \* is_text_msg, max_flen, need_mask, is_ping, is_pong
    framed_len,
    nexf_starti,
    frames,       \* Vec<WebSocketFrame>
    ws_res,       \* what set_message_data returned
    ws_wire,      \* the bytes written to the stream
    ws_rpos,      \* how many of them from_stream has read
    rframes,      \* the frames of the message from_stream builds
    ws_data,      \* get_message_data of the message read
    probe_flen,   \* the actual_flen of a with_size_kinds call
    probe_res,    \* what that call returned
    ws_prev,      \* the set_message_data calls that returned earlier on the message
    \* ---- a capability request (GeckoCapRequ / ChromCapRequ) ----
    requ_vendor,  \* "gecko" or "chrom"
    always_match, \* CommCapRequ.always_match
    first_match,  \* CommCapRequ.first_match
    requ_calls,   \* how many calls were made on the request
    requ_op,      \* the last call
    requ_other,   \* its argument
    requ_before,  \* the request before it
    ser_in,       \* what was last serialized or deserialized
    ser_out,      \* None, or Some of the JSON written or of how the parse ended
    \* ---- an HTTP request sent and read back, and the WebSocket handshake ----
    h_pc,         \* "idle", "composed", "sent", "decoded", "looked", "hs_sent", ...
    h_req,        \* the HttpRequestParts a caller built
    h_peer,       \* the header line a peer wrote, and the status it answered
    h_wire,       \* the bytes on the stream
    h_dec,        \* what from_stream returned
    h_get,        \* the last getter called and what it returned
    hs_res        \* what try_as_client returned

clientVars == <<rstream, ws_stream, ssids>>
dropVars == <<dpc, drop_i, drop_len, drop_ssids, drop_log, drop_failed, drop_panic>>
cmdVars == <<tpc, tcmd, tcall, tsent, tresp, tres, stream_lock, ncalls, lock_waiters,
             wire_reqs,
             wire_resps, consumed>>
streamVars == <<spc, status_code, msgbody_len, insig_head, insig_tail,
                insig_head_tmp, insig_tail_tmp, peer_left, stream_pos, nleft,
                pbody_file, persist_res, pbody_path, reason, msgbody>>
initVars == <<variant, ready_timeout, ipc, ready_timeout_in_micros, already_wait,
              ready_or_not, rdy_err, sess_err, rdy_res, sess_res, sent,
              last_resp, init_res, retried, cmd_res>>
wsVars == <<ws_pc, ws_origin, size_kinds, bin_data, setts, ws_sett, framed_len,
            nexf_starti, frames, ws_res, ws_wire, ws_rpos, rframes, ws_data,
            probe_flen, probe_res, ws_prev>>
capVars == <<requ_vendor, always_match, first_match, requ_calls, requ_op,
             requ_other, requ_before, ser_in, ser_out>>
httpVars == <<h_pc, h_req, h_peer, h_wire, h_dec, h_get, hs_res>>
vars == <<clientVars, initVars, dropVars, cmdVars, streamVars, wsVars, capVars,
          httpVars>>

(***************************************************************************)
(* WdcError and the results of the client's calls.                          *)
(***************************************************************************)
WdcRes(k) == [kind |-> k, error |-> "", message |-> ""]
NoRes == WdcRes("none")
Ok == WdcRes("Ok")
Buggy == WdcRes("Buggy")
BusyCreateSession == WdcRes("BusyCreateSession")
DriverNotReadyBusySession == WdcRes("DriverNotReadyBusySession")
WebDriverNotReady == WdcRes("WebDriverNotReady")
WebDriverRemoteConnectionFailed == WdcRes("WebDriverRemoteConnectionFailed")
BadDrvCmd(e, m) == [kind |-> "BadDrvCmd", error |-> e, message |-> m]

(***************************************************************************)
(* What the driver may answer.  A response is a status (the 4-byte code     *)
(* prefix, then the reason phrase) and a JSON body; IoFail stands for a     *)
(* stream on which the write or a read fails.                               *)
(***************************************************************************)
JsonBody(shape, ready, e, m, id, ws) ==
    [shape |-> shape, ready |-> ready, error |-> e, message |-> m,
     sessionId |-> id, wsurl |-> ws]
StatusBody(ready, m) == JsonBody("status", ready, "", m, "", "")
ErrorBody(e, m) == JsonBody("error", FALSE, e, m, "", "")
SessionBody(id, ws) == JsonBody("session", FALSE, "", "", id, ws)
GarbageBody == JsonBody("garbage", FALSE, "", "", "", "")

Resp(status, body) == [status |-> status, body |-> body]
Status200 == <<"200 ", "OK">>
Status404 == <<"404 ", "Not Found">>
\* the webSocketUrl of a session result is absent, or matches
\* ws://(.*)/session/(.*)
Responses ==
    {Resp(Status200, StatusBody(TRUE, "")),
     Resp(Status200, StatusBody(FALSE, "Session already started")),
     Resp(Status200, StatusBody(FALSE, "starting up")),
     Resp(Status200, GarbageBody),
     Resp(Status200, SessionBody("s1", "")),
     Resp(Status200, SessionBody("s1", "ws://127.0.0.1:9222/session/s1")),
     Resp(Status404, ErrorBody("session not created", "Session is already started")),
     Resp(Status404, ErrorBody("javascript error", "123456789"))}
IoFail == Resp(<<"", "">>, GarbageBody)
NoResp == Resp(<<"none", "">>, GarbageBody)

(***************************************************************************)
(* The client's reading of a response.                                      *)
(***************************************************************************)
\* HttpResponseParts::is_ok
is_ok(resp) == resp.status = <<"200 ", "OK">>

\* the JSON text of the string holds an escape sequence, so that serde_json
\* cannot hand it out as a slice of its input
HasJsonEscape(str) == str \in {"unexpected \"alert\" open"}

\* serde_json::from_slice::<BadCmdResp> succeeds: the body is
\* {"value": {"error": .., "message": ..}} and its error, which is read as a
\* borrowed &'de str, needs no unescaping (the message is read as a String)
ParsesAsBadCmdResp(body) == body.shape = "error" /\ ~HasJsonEscape(body.error)
\* serde_json::from_slice::<DrvStatResult> succeeds
ParsesAsDrvStatResult(body) == body.shape = "status"
\* serde_json::from_slice::<D::SessResult> succeeds
ParsesAsSessResult(body) == body.shape = "session"

check_fail_drvcmd(body) ==
    IF ParsesAsBadCmdResp(body)
    THEN IF body.error = "session not created"
            /\ body.message = "Session is already started"
         THEN BusyCreateSession
         ELSE BadDrvCmd(body.error, body.message)
    ELSE Buggy

\* WebDrvClient::is_ready / BidiClient::is_ready, on a client with a stream
is_ready(resp) ==
    IF is_ok(resp)
    THEN IF ParsesAsDrvStatResult(resp.body)
         THEN IF resp.body.ready THEN Ok
              ELSE IF resp.body.message = "Session already started"
                   THEN DriverNotReadyBusySession
                   ELSE WebDriverNotReady
         ELSE Buggy
    ELSE check_fail_drvcmd(resp.body)

\* w3c_session_default / w3c_session_singl / ff_session_singl /
\* ch_session_singl / wstd_session_default: the Result of the call
session_result(resp) ==
    IF is_ok(resp)
    THEN IF ParsesAsSessResult(resp.body) THEN Ok ELSE Buggy
    ELSE check_fail_drvcmd(resp.body)

\* WebDrvClient::add_ssid / BidiClient::add_ssmeta
add_ssid(list, ssid) == Append(list, ssid)

(***************************************************************************)
(* Requests, as written to the stream.                                      *)
(***************************************************************************)
Req(method, path) == [method |-> method, path |-> path]
NoReq == Req("", <<>>)
GetStatus == Req("GET", <<"status">>)
PostSession == Req("POST", <<"session">>)
DeleteSession(ssid) == Req("DELETE", <<"session", ssid>>)

\* the commands of the command surface that the model runs
Commands == {"is_ready", "navi_to", "get_url", "exec_sync"}

\* the request a command writes, for the first session id
command_request(cmd, ssid) ==
    CASE cmd = "is_ready" -> GetStatus
      [] cmd = "navi_to" -> Req("POST", <<"session", ssid, "url">>)
      [] cmd = "get_url" -> Req("GET", <<"session", ssid, "url">>)
      [] cmd = "exec_sync" -> Req("POST", <<"session", ssid, "execute", "sync">>)

\* the Result a command makes of the response it read
command_result(cmd, resp) ==
    IF cmd = "is_ready" THEN is_ready(resp)
    ELSE IF is_ok(resp) THEN Ok ELSE check_fail_drvcmd(resp.body)

(***************************************************************************)
(* init, init_singl, init_singl_ff, init_singl_ch and bidi::init.           *)
(***************************************************************************)
\* whether ready_timeout * 1000000 overflows a u32
\* (x * 2^6 >= 2^32 iff x >= 2^26)
u32_mul_micros_overflows(rt) ==
    rt * MicrosPerSecOdd >= U32ModulusDivPow2

\* ready_timeout * 1000000 as the u32 multiplication yields it without
\* overflow checks (x * 2^6 mod 2^32 = (x mod 2^26) * 2^6)
u32_mul_micros(rt) ==
    ((rt * MicrosPerSecOdd) % U32ModulusDivPow2) * MicrosPerSecPow2

Variants == {"init", "init_singl", "init_singl_ff", "init_singl_ch", "bidi_init"}
\* ready_timeout is drawn from 0..MaxReadyTimeout and the smallest number of
\* seconds whose budget in microseconds does not fit in a u32 (it wraps to
\* 32704 microseconds, 328 rounds, when overflow checks are off)
OverflowReadyTimeout ==
    CHOOSE rt \in 0..5000 :
        /\ u32_mul_micros_overflows(rt)
        /\ \A r \in 0..(rt - 1) : ~u32_mul_micros_overflows(r)
ReadyTimeouts == (0..MaxReadyTimeout) \cup {OverflowReadyTimeout}

\* rdy_loop_ctl with every error of the status step treated as transient
rdy_loop_ctl_retry_any(res) ==
    IF res = Ok THEN "break" ELSE "sleep_continue"

\* the arms of "match wdc.is_ready()" in the first loop
rdy_loop_ctl(res) ==
    IF res = Ok THEN "break"
    ELSE IF res = DriverNotReadyBusySession THEN "sleep_continue"
    ELSE "break"

\* sess_loop_ctl without the break of the Ok arm
sess_loop_ctl_no_break(res) ==
    IF res = Ok THEN "sleep_continue"
    ELSE IF res = BusyCreateSession THEN "sleep_continue"
    ELSE "break"

\* sess_loop_ctl with every error of the session step treated as transient
sess_loop_ctl_retry_any(res) ==
    IF res = Ok THEN "break" ELSE "sleep_continue"

\* the arms of "match wdc.w3c_session_default()" (and its siblings) in the
\* second loop
sess_loop_ctl(res) ==
    IF res = Ok THEN "break"
    ELSE IF res = BusyCreateSession THEN "sleep_continue"
    ELSE "break"

\* init_return with the recorded errors of init_singl_ff / init_singl_ch dropped
init_return_not_ready(v, ron, re, se) ==
    IF ron THEN Ok ELSE WebDriverNotReady

\* the value the function returns after the two loops
init_return(v, ron, re, se) ==
    IF ron THEN Ok
    ELSE IF v \in {"init_singl_ff", "init_singl_ch"}
         THEN IF re # NoRes THEN re
              ELSE IF se # NoRes THEN se
              ELSE WebDriverNotReady
         ELSE WebDriverNotReady

\* the locals of the run are gone once the function has returned or unwound
InitLeave(pc, res) ==
    /\ ipc' = pc
    /\ init_res' = res
    /\ ready_timeout_in_micros' = 0
    /\ already_wait' = 0
    /\ ready_or_not' = FALSE
    /\ rdy_err' = NoRes
    /\ sess_err' = NoRes

\* D::new(rhost, rport); wdc.ensure_remote_connected()?
InitConnect ==
    /\ ipc = "new"
    /\ sent' = NoReq
    /\ last_resp' = NoResp
    /\ \/ /\ rstream' = "Some"
          /\ ipc' = "connected"
          /\ UNCHANGED <<init_res, ready_timeout_in_micros, already_wait,
                         ready_or_not, rdy_err, sess_err>>
       \/ /\ rstream' = "None"
          /\ InitLeave("returned", WebDriverRemoteConnectionFailed)
    /\ UNCHANGED <<ws_stream, ssids, variant, ready_timeout, rdy_res, sess_res,
                   retried, cmd_res>>
    /\ UNCHANGED <<dropVars, cmdVars, streamVars>>
    /\ UNCHANGED wsVars
    /\ UNCHANGED capVars
    /\ UNCHANGED httpVars

\* let ready_timeout_in_micros = (ready_timeout * 1000000) as u64: a u32
\* product, which panics when overflow checks are on and wraps otherwise
InitBudget ==
    /\ ipc = "connected"
    /\ sent' = NoReq
    /\ last_resp' = NoResp
    /\ \/ /\ ready_timeout_in_micros' = u32_mul_micros(ready_timeout)
          /\ ipc' = "rdy_loop"
          /\ UNCHANGED <<init_res, already_wait, ready_or_not, rdy_err, sess_err>>
       \/ /\ u32_mul_micros_overflows(ready_timeout)
          /\ InitLeave("panicked", NoRes)
    /\ UNCHANGED <<clientVars, variant, ready_timeout, rdy_res, sess_res, retried,
                   cmd_res>>
    /\ UNCHANGED <<dropVars, cmdVars, streamVars>>
    /\ UNCHANGED wsVars
    /\ UNCHANGED capVars
    /\ UNCHANGED httpVars

\* one round of "while already_wait < ready_timeout_in_micros { match wdc.is_ready() ... }"
InitStatusRound ==
    /\ ipc = "rdy_loop"
    /\ already_wait < ready_timeout_in_micros
    /\ sent' = GetStatus
    /\ \E resp \in Responses \cup {IoFail} :
          /\ last_resp' = resp
          /\ IF resp = IoFail
             THEN /\ InitLeave("panicked", NoRes)
                  /\ UNCHANGED <<rdy_res, retried>>
             ELSE /\ rdy_res' = is_ready(resp)
                  /\ UNCHANGED <<init_res, ready_timeout_in_micros, ready_or_not>>
                  /\ IF rdy_loop_ctl(is_ready(resp)) = "sleep_continue"
                     THEN /\ already_wait' = already_wait + wait_each_round
                          /\ retried' = TRUE
                          /\ UNCHANGED <<ipc, rdy_err, sess_err>>
                     ELSE /\ ipc' = "sess_loop"
                          /\ UNCHANGED retried
                          /\ rdy_err' = IF is_ready(resp) # Ok
                                           /\ variant = "init_singl_ff"
                                        THEN is_ready(resp) ELSE rdy_err
                          /\ sess_err' = IF is_ready(resp) # Ok
                                            /\ variant = "init_singl_ch"
                                         THEN is_ready(resp) ELSE sess_err
                          /\ UNCHANGED already_wait
    /\ UNCHANGED <<clientVars, variant, ready_timeout, sess_res, cmd_res>>
    /\ UNCHANGED <<dropVars, cmdVars, streamVars>>
    /\ UNCHANGED wsVars
    /\ UNCHANGED capVars
    /\ UNCHANGED httpVars

\* the first loop's condition is false
InitStatusExit ==
    /\ ipc = "rdy_loop"
    /\ ~(already_wait < ready_timeout_in_micros)
    /\ ipc' = "sess_loop"
    /\ sent' = NoReq
    /\ last_resp' = NoResp
    /\ UNCHANGED <<clientVars, variant, ready_timeout, ready_timeout_in_micros,
                   already_wait, ready_or_not, rdy_err, sess_err, rdy_res,
                   sess_res, init_res, retried, cmd_res>>
    /\ UNCHANGED <<dropVars, cmdVars, streamVars>>
    /\ UNCHANGED wsVars
    /\ UNCHANGED capVars
    /\ UNCHANGED httpVars

\* wstd_session_default after add_ssmeta: the regex on sess.wsurl().unwrap(),
\* TcpStream::connect and the handshake.  "panic", or the new ws_stream.
wstd_open_ws(wsurl, connected, handshaken) ==
    IF wsurl # "ws://127.0.0.1:9222/session/s1" THEN "panic"
    ELSE IF ~connected THEN "None"
    ELSE IF ~handshaken THEN "panic"
    ELSE "Some"

\* one round of the second loop: the session-creation call and its match
InitSessionRound ==
    /\ ipc = "sess_loop"
    /\ already_wait < ready_timeout_in_micros
    /\ sent' = PostSession
    /\ \E resp \in Responses \cup {IoFail} :
       \E ws \in IF variant = "bidi_init" /\ session_result(resp) = Ok
                 THEN {wstd_open_ws(resp.body.wsurl, connected, handshaken) :
                          connected \in BOOLEAN, handshaken \in BOOLEAN}
                 ELSE {ws_stream} :
          /\ last_resp' = resp
          /\ IF resp = IoFail \/ ws = "panic"
             THEN /\ InitLeave("panicked", NoRes)
                  /\ ssids' = IF resp # IoFail
                              THEN add_ssid(ssids, resp.body.sessionId)
                              ELSE ssids
                  /\ UNCHANGED <<ws_stream, sess_res, retried>>
             ELSE /\ sess_res' = session_result(resp)
                  /\ ssids' = IF session_result(resp) = Ok
                              THEN add_ssid(ssids, resp.body.sessionId)
                              ELSE ssids
                  /\ ws_stream' = ws
                  /\ IF sess_loop_ctl(session_result(resp)) = "sleep_continue"
                     THEN /\ already_wait' = already_wait + wait_each_round
                          /\ ready_or_not' =
                                (ready_or_not \/ session_result(resp) = Ok)
                          /\ retried' = TRUE
                          /\ UNCHANGED <<ipc, init_res, ready_timeout_in_micros,
                                         rdy_err, sess_err>>
                     ELSE /\ UNCHANGED retried
                          /\ InitLeave("returned",
                             init_return(variant,
                                 ready_or_not \/ session_result(resp) = Ok,
                                 rdy_err,
                                 IF session_result(resp) # Ok
                                    /\ variant \in {"init_singl_ff",
                                                    "init_singl_ch"}
                                 THEN session_result(resp) ELSE sess_err))
    /\ UNCHANGED <<rstream, variant, ready_timeout, rdy_res, cmd_res>>
    /\ UNCHANGED <<dropVars, cmdVars, streamVars>>
    /\ UNCHANGED wsVars
    /\ UNCHANGED capVars
    /\ UNCHANGED httpVars

\* the second loop's condition is false
InitSessionExit ==
    /\ ipc = "sess_loop"
    /\ ~(already_wait < ready_timeout_in_micros)
    /\ sent' = NoReq
    /\ last_resp' = NoResp
    /\ InitLeave("returned", init_return(variant, ready_or_not, rdy_err, sess_err))
    /\ UNCHANGED <<clientVars, variant, ready_timeout, rdy_res, sess_res, retried,
                   cmd_res>>
    /\ UNCHANGED <<dropVars, cmdVars, streamVars>>
    /\ UNCHANGED wsVars
    /\ UNCHANGED capVars
    /\ UNCHANGED httpVars

\* a command called on the client that the run returned
InitClientCommand ==
    /\ ipc = "returned"
    /\ init_res = Ok
    /\ \E cmd \in Commands, resp \in Responses \cup {IoFail} :
          /\ sent' = command_request(cmd, ssids[1])
          /\ last_resp' = resp
          /\ IF resp = IoFail
             THEN ipc' = "panicked" /\ UNCHANGED cmd_res
             ELSE cmd_res' = command_result(cmd, resp) /\ UNCHANGED ipc
    /\ UNCHANGED <<clientVars, variant, ready_timeout, ready_timeout_in_micros,
                   already_wait, ready_or_not, rdy_err, sess_err, rdy_res,
                   sess_res, init_res, retried>>
    /\ UNCHANGED <<dropVars, cmdVars, streamVars>>
    /\ UNCHANGED wsVars
    /\ UNCHANGED capVars
    /\ UNCHANGED httpVars

\* the values the variables of the other parts keep while one part runs
InitNotRunning ==
    /\ variant = "init"
    /\ ready_timeout = 0
    /\ ipc = "idle"
    /\ ready_timeout_in_micros = 0
    /\ already_wait = 0
    /\ ready_or_not = FALSE
    /\ rdy_err = NoRes
    /\ sess_err = NoRes
    /\ rdy_res = NoRes
    /\ sess_res = NoRes
    /\ sent = NoReq
    /\ last_resp = NoResp
    /\ init_res = NoRes
    /\ retried = FALSE
    /\ cmd_res = NoRes
DropNotRunning ==
    /\ dpc = "idle"
    /\ drop_i = 0
    /\ drop_len = 0
    /\ drop_ssids = <<>>
    /\ drop_log = <<>>
    /\ drop_failed = FALSE
    /\ drop_panic = ""
CmdNotRunning ==
    /\ tpc = <<>>
    /\ tcmd = <<>>
    /\ tcall = <<>>
    /\ tsent = <<>>
    /\ tresp = <<>>
    /\ tres = <<>>
    /\ stream_lock = [holder |-> "", poisoned |-> FALSE]
    /\ ncalls = 0
    /\ lock_waiters = <<>>
    /\ wire_reqs = <<>>
    /\ wire_resps = <<>>
    /\ consumed = <<>>
StreamNotRunning ==
    /\ spc = "idle"
    /\ status_code = ""
    /\ msgbody_len = 0
    /\ insig_head = 0
    /\ insig_tail = 0
    /\ insig_head_tmp = 0
    /\ insig_tail_tmp = 0
    /\ peer_left = 0
    /\ stream_pos = 0
    /\ nleft = 0
    /\ pbody_file = <<>>
    /\ persist_res = ""
    /\ pbody_path = "None"
    /\ reason = ""
    /\ msgbody = <<>>

WsNotRunning ==
    /\ ws_pc = "idle"
    /\ ws_origin = ""
    /\ size_kinds = <<FALSE, FALSE, FALSE>>
    /\ bin_data = <<>>
    /\ setts = <<>>
    /\ ws_sett = <<>>
    /\ framed_len = 0
    /\ nexf_starti = 0
    /\ frames = <<>>
    /\ ws_res = ""
    /\ ws_wire = <<>>
    /\ ws_rpos = 0
    /\ rframes = <<>>
    /\ ws_data = <<>>
    /\ probe_flen = 0
    /\ probe_res = ""
    /\ ws_prev = <<>>

CapNotRunning ==
    /\ requ_vendor = "none"
    /\ always_match = <<>>
    /\ first_match = <<>>
    /\ requ_calls = 0
    /\ requ_op = ""
    /\ requ_other = <<>>
    /\ requ_before = <<>>
    /\ ser_in = <<>>
    /\ ser_out = <<>>

HttpNotRunning ==
    /\ h_pc = "none"
    /\ h_req = <<>>
    /\ h_peer = <<>>
    /\ h_wire = <<>>
    /\ h_dec = [kind |-> "none", val |-> <<>>]
    /\ h_get = [getter |-> "", res |-> [kind |-> "none", val |-> <<>>]]
    /\ hs_res = ""

InitInit ==
    /\ rstream = "None"
    /\ ws_stream = "None"
    /\ ssids = <<>>
    /\ variant \in Variants
    /\ ready_timeout \in ReadyTimeouts
    /\ ipc = "new"
    /\ ready_timeout_in_micros = 0
    /\ already_wait = 0
    /\ ready_or_not = FALSE
    /\ rdy_err = NoRes
    /\ sess_err = NoRes
    /\ rdy_res = NoRes
    /\ sess_res = NoRes
    /\ sent = NoReq
    /\ last_resp = NoResp
    /\ init_res = NoRes
    /\ retried = FALSE
    /\ cmd_res = NoRes
    /\ DropNotRunning
    /\ CmdNotRunning
    /\ StreamNotRunning
    /\ WsNotRunning
    /\ CapNotRunning
    /\ HttpNotRunning

InitNext ==
    \/ InitConnect
    \/ InitBudget
    \/ InitStatusRound
    \/ InitStatusExit
    \/ InitSessionRound
    \/ InitSessionExit
    \/ InitClientCommand

SpecInit == InitInit /\ [][InitNext]_vars

(***************************************************************************)
(* Drop for WebDrvClient (genericdrv.rs) and for BidiClient (bidi.rs).      *)
(***************************************************************************)
\* the session ids the driver hands out
SessionIds == {"s1", "s2", "s3"}

Range(seq) == {seq[k] : k \in 1..Len(seq)}

\* what the driver answers to DELETE /session/{id}
DeleteResponses ==
    {Resp(Status200, GarbageBody),
     Resp(Status404, ErrorBody("invalid session id", "no such session"))}

\* del_session: the Result of the call, from the stream and the response read
del_session(rs, resp) ==
    IF rs = "None" THEN WebDriverRemoteConnectionFailed
    ELSE IF is_ok(resp) THEN Ok
    ELSE Buggy

\* .expect("delete driver session") on the Result of del_session
expect_delete(res) == IF res = Ok THEN "continue" ELSE "panic"

\* Vec::remove(i), i counted from 0
vec_remove(list, i) == SubSeq(list, 1, i) \o SubSeq(list, i + 2, Len(list))

DropLeave(pc, cause) ==
    /\ dpc' = pc
    /\ drop_panic' = cause

\* a session id is pushed to the client's list (add_ssid / add_ssmeta)
DropAddSsid ==
    /\ dpc = "live"
    /\ Len(ssids) < MaxSessions
    /\ \E ssid \in SessionIds \ Range(ssids) : ssids' = add_ssid(ssids, ssid)
    /\ UNCHANGED <<rstream, ws_stream, initVars, dropVars, cmdVars, streamVars>>
    /\ UNCHANGED wsVars
    /\ UNCHANGED capVars
    /\ UNCHANGED httpVars

\* drop is entered: the range 0..self.ssids.len() is evaluated
DropBegin ==
    /\ dpc = "live"
    /\ dpc' = "dropping"
    /\ drop_i' = 0
    /\ drop_len' = Len(ssids)
    /\ drop_ssids' = ssids
    /\ UNCHANGED <<clientVars, initVars, drop_log, drop_failed, drop_panic,
                   cmdVars, streamVars>>
    /\ UNCHANGED wsVars
    /\ UNCHANGED capVars
    /\ UNCHANGED httpVars

\* one iteration of the for loop:
\*   let ssid = &self.ssids[i];
\*   self.del_session(ssid).expect("delete driver session");
\*   self.ssids.remove(i);
DropIter ==
    /\ dpc = "dropping"
    /\ drop_i < drop_len
    /\ IF drop_i >= Len(ssids)
       THEN \* self.ssids[i]: index out of bounds
            /\ DropLeave("panicked", "index")
            /\ UNCHANGED <<ssids, drop_i, drop_log, drop_failed>>
       ELSE LET ssid == ssids[drop_i + 1] IN
            IF rstream = "None"
            THEN \* del_session returns before it writes anything
                 /\ drop_failed' = TRUE
                 /\ IF expect_delete(del_session(rstream, NoResp)) = "panic"
                    THEN /\ DropLeave("panicked", "expect")
                         /\ UNCHANGED <<ssids, drop_i, drop_log>>
                    ELSE /\ ssids' = vec_remove(ssids, drop_i)
                         /\ drop_i' = drop_i + 1
                         /\ UNCHANGED <<dpc, drop_panic, drop_log>>
            ELSE \E resp \in DeleteResponses \cup {IoFail} :
                 IF resp = IoFail
                 THEN \* send_through(..).unwrap() / from_stream(..).unwrap()
                      /\ drop_log' = Append(drop_log,
                                        [req |-> DeleteSession(ssid), res |-> NoRes])
                      /\ DropLeave("panicked", "unwrap")
                      /\ UNCHANGED <<ssids, drop_i, drop_failed>>
                 ELSE LET res == del_session(rstream, resp) IN
                      /\ drop_log' = Append(drop_log,
                                        [req |-> DeleteSession(ssid), res |-> res])
                      /\ drop_failed' = (drop_failed \/ res # Ok)
                      /\ IF expect_delete(res) = "panic"
                         THEN /\ DropLeave("panicked", "expect")
                              /\ UNCHANGED <<ssids, drop_i>>
                         ELSE /\ ssids' = vec_remove(ssids, drop_i)
                              /\ drop_i' = drop_i + 1
                              /\ UNCHANGED <<dpc, drop_panic>>
    /\ UNCHANGED <<rstream, ws_stream, initVars, drop_len, drop_ssids, cmdVars,
                   streamVars>>
    /\ UNCHANGED wsVars
    /\ UNCHANGED capVars
    /\ UNCHANGED httpVars

\* the range is exhausted: drop returns
DropEnd ==
    /\ dpc = "dropping"
    /\ drop_i = drop_len
    /\ DropLeave("dropped", "")
    /\ UNCHANGED <<clientVars, initVars, drop_i, drop_len, drop_ssids, drop_log,
                   drop_failed, cmdVars, streamVars>>
    /\ UNCHANGED wsVars
    /\ UNCHANGED capVars
    /\ UNCHANGED httpVars

\* a client as new() / default() and ensure_remote_connected leave it
DropInit ==
    /\ rstream \in {"None", "Some"}
    /\ ws_stream = "None"
    /\ ssids = <<>>
    /\ InitNotRunning
    /\ dpc = "live"
    /\ drop_i = 0
    /\ drop_len = 0
    /\ drop_ssids = <<>>
    /\ drop_log = <<>>
    /\ drop_failed = FALSE
    /\ drop_panic = ""
    /\ CmdNotRunning
    /\ StreamNotRunning
    /\ WsNotRunning
    /\ CapNotRunning
    /\ HttpNotRunning

DropNext ==
    \/ DropAddSsid
    \/ DropBegin
    \/ DropIter
    \/ DropEnd

SpecDrop == DropInit /\ [][DropNext]_vars

(***************************************************************************)
(* Commands called from several threads on one client.                      *)
(***************************************************************************)
Threads == {"t1", "t2"}
NoThread == ""

\* what the driver answers to a command
CommandResponses ==
    {Resp(Status200, StatusBody(TRUE, "")),
     Resp(Status200, StatusBody(FALSE, "Session already started")),
     Resp(Status404, ErrorBody("session not created", "Session is already started")),
     Resp(Status404, ErrorBody("javascript error", "123456789")),
     Resp(Status404, ErrorBody("javascript error", "Error: \"x\" is not defined")),
     Resp(Status404, ErrorBody("unexpected \"alert\" open", "Dismissed"))}

\* a command going on to the stream whatever the session list holds
command_precheck_stream_only(cmd, rs, list) ==
    IF rs = "None" THEN WebDriverRemoteConnectionFailed ELSE Ok

\* the checks a command makes before it touches the stream:
\*   if self.rstream.is_none() { return Err(WebDriverRemoteConnectionFailed) }
\*   if self.ssids.len() == 0 { return Err(Buggy) }      (not in is_ready)
command_precheck(cmd, rs, list) ==
    IF rs = "None" THEN WebDriverRemoteConnectionFailed
    ELSE IF cmd # "is_ready" /\ Len(list) = 0 THEN Buggy
    ELSE Ok

\* Mutex::lock with every caller let in while the lock is held
mutex_can_lock_always(holder) == TRUE

\* a lock that the guard of thread "t2" does not close
mutex_can_lock_past_t2(holder) == holder \in {NoThread, "t2"}

\* Mutex::lock returns only while no other guard is alive
mutex_can_lock(holder) == holder = NoThread

\* the guard dropped as soon as the request is written
guard_after_send_dropped(t) == NoThread

\* "let mut stream = ...lock().unwrap()" is a local of the command: the guard
\* is still alive after send_through
guard_after_send(t) == t

\* the command writing its request again after a transient error
cmd_after_result_retry(res) ==
    IF res \in {BusyCreateSession, DriverNotReadyBusySession}
    THEN "resend"
    ELSE "return"

\* "if resp.is_ok() { Ok(..) } else { check_fail_drvcmd(..) }" is the tail of
\* the command: whatever the result, the command returns it
cmd_after_result(res) == "return"

\* a thread calls a command
CmdCall(t) ==
    /\ tpc[t] = "idle"
    /\ ncalls < MaxCalls
    /\ ncalls' = ncalls + 1
    /\ \E cmd \in Commands :
          /\ tcmd' = [tcmd EXCEPT ![t] = cmd]
          /\ tcall' = [tcall EXCEPT ![t] = @ + 1]
          /\ tsent' = [tsent EXCEPT ![t] = 0]
          /\ tresp' = [tresp EXCEPT ![t] = NoResp]
          /\ IF command_precheck(cmd, rstream, ssids) = Ok
             THEN /\ tpc' = [tpc EXCEPT ![t] = "lock"]
                  /\ tres' = [tres EXCEPT ![t] = NoRes]
                  /\ lock_waiters' = Append(lock_waiters, t)
             ELSE /\ tres' = [tres EXCEPT ![t] = command_precheck(cmd, rstream, ssids)]
                  /\ UNCHANGED <<tpc, lock_waiters>>
    /\ UNCHANGED <<clientVars, initVars, dropVars, stream_lock, wire_reqs,
                   wire_resps, consumed, streamVars>>
    /\ UNCHANGED wsVars
    /\ UNCHANGED capVars
    /\ UNCHANGED httpVars

\* self.rstream.as_ref().unwrap().lock().unwrap()
CmdLock(t) ==
    /\ tpc[t] = "lock"
    /\ mutex_can_lock(stream_lock.holder)
    /\ IF stream_lock.poisoned
       THEN /\ tpc' = [tpc EXCEPT ![t] = "panicked"]
            /\ UNCHANGED stream_lock
       ELSE /\ tpc' = [tpc EXCEPT ![t] = "locked"]
            /\ stream_lock' = [stream_lock EXCEPT !.holder = t]
    /\ lock_waiters' = SelectSeq(lock_waiters, LAMBDA u : u # t)
    /\ UNCHANGED <<clientVars, initVars, dropVars, tcmd, tcall, tsent, tresp, tres,
                   ncalls, wire_reqs, wire_resps, consumed, streamVars>>
    /\ UNCHANGED wsVars
    /\ UNCHANGED capVars
    /\ UNCHANGED httpVars

\* req...send_through(&mut stream).unwrap()
CmdSend(t) ==
    /\ tpc[t] = "locked"
    /\ \/ /\ wire_reqs' = Append(wire_reqs,
                             [by |-> t, call |-> tcall[t],
                              req |-> command_request(tcmd[t],
                                         IF Len(ssids) > 0 THEN ssids[1] ELSE "")])
          /\ tsent' = [tsent EXCEPT ![t] = @ + 1]
          /\ tpc' = [tpc EXCEPT ![t] = "sent"]
          /\ stream_lock' = [stream_lock EXCEPT !.holder = guard_after_send(t)]
       \/ \* the write fails: the unwrap panics with the guard alive
          /\ tpc' = [tpc EXCEPT ![t] = "panicked"]
          /\ stream_lock' = [holder |-> NoThread, poisoned |-> TRUE]
          /\ UNCHANGED <<wire_reqs, tsent>>
    /\ UNCHANGED <<clientVars, initVars, dropVars, lock_waiters, tcmd, tcall, tresp, tres, ncalls,
                   wire_resps, consumed, streamVars>>
    /\ UNCHANGED wsVars
    /\ UNCHANGED capVars
    /\ UNCHANGED httpVars

\* the driver answers the oldest request it has not answered yet
DriverRespond ==
    /\ Len(wire_resps) < Len(wire_reqs)
    /\ \E resp \in CommandResponses :
          wire_resps' = Append(wire_resps, [k |-> Len(wire_resps) + 1, resp |-> resp])
    /\ UNCHANGED <<clientVars, initVars, dropVars, lock_waiters, tpc, tcmd, tcall, tsent, tresp,
                   tres, stream_lock, ncalls, wire_reqs, consumed, streamVars>>
    /\ UNCHANGED wsVars
    /\ UNCHANGED capVars
    /\ UNCHANGED httpVars

\* HttpResponseParts::from_stream(&mut stream, ..).unwrap(), then the result
CmdRecv(t) ==
    /\ tpc[t] = "sent"
    /\ Len(consumed) < Len(wire_resps)
    /\ LET r == wire_resps[Len(consumed) + 1]
           res == command_result(tcmd[t], r.resp)
       IN /\ consumed' = Append(consumed, [by |-> t, call |-> tcall[t], k |-> r.k])
          /\ tresp' = [tresp EXCEPT ![t] = r.resp]
          /\ IF cmd_after_result(res) = "return"
             THEN /\ tres' = [tres EXCEPT ![t] = res]
                  /\ tpc' = [tpc EXCEPT ![t] = "idle"]
                  /\ stream_lock' =
                        [stream_lock EXCEPT
                           !.holder = IF @ = t THEN NoThread ELSE @]
             ELSE /\ tpc' = [tpc EXCEPT ![t] = "locked"]
                  /\ UNCHANGED <<tres, stream_lock>>
    /\ UNCHANGED <<clientVars, initVars, dropVars, lock_waiters, tcmd, tcall, tsent, ncalls,
                   wire_reqs, wire_resps, streamVars>>
    /\ UNCHANGED wsVars
    /\ UNCHANGED capVars
    /\ UNCHANGED httpVars

\* the read fails (the connection breaks, the bytes are no HTTP response):
\* the unwrap panics with the guard alive
CmdRecvFail(t) ==
    /\ tpc[t] = "sent"
    /\ tpc' = [tpc EXCEPT ![t] = "panicked"]
    /\ stream_lock' = [holder |-> IF stream_lock.holder = t THEN NoThread
                                  ELSE stream_lock.holder,
                       poisoned |-> TRUE]
    /\ UNCHANGED <<clientVars, initVars, dropVars, lock_waiters, tcmd, tcall, tsent, tresp, tres,
                   ncalls, wire_reqs, wire_resps, consumed, streamVars>>
    /\ UNCHANGED wsVars
    /\ UNCHANGED capVars
    /\ UNCHANGED httpVars

\* a client shared by the threads: initialised (a stream and one session id),
\* or lacking the stream or the session id
CmdInit ==
    /\ rstream \in {"None", "Some"}
    /\ ws_stream = "None"
    /\ ssids \in {<<>>, <<"s1">>}
    /\ InitNotRunning
    /\ DropNotRunning
    /\ tpc = [t \in Threads |-> "idle"]
    /\ tcmd = [t \in Threads |-> ""]
    /\ tcall = [t \in Threads |-> 0]
    /\ tsent = [t \in Threads |-> 0]
    /\ tresp = [t \in Threads |-> NoResp]
    /\ tres = [t \in Threads |-> NoRes]
    /\ stream_lock = [holder |-> NoThread, poisoned |-> FALSE]
    /\ ncalls = 0
    /\ lock_waiters = <<>>
    /\ wire_reqs = <<>>
    /\ wire_resps = <<>>
    /\ consumed = <<>>
    /\ StreamNotRunning
    /\ WsNotRunning
    /\ CapNotRunning
    /\ HttpNotRunning

CmdNext ==
    \/ \E t \in Threads : CmdCall(t)
    \/ \E t \in Threads : CmdLock(t)
    \/ \E t \in Threads : CmdSend(t)
    \/ DriverRespond
    \/ \E t \in Threads : CmdRecv(t)
    \/ \E t \in Threads : CmdRecvFail(t)

SpecCmd == CmdInit /\ [][CmdNext]_vars

(***************************************************************************)
(* HttpResponseParts::from_stream with a persistence path (httpp.rs).       *)
(* The body byte at position p of the stream is written p, so that the      *)
(* file's content shows which bytes of the body it holds.                   *)
(***************************************************************************)
StatusCodes == {"200 ", "404 "}
\* the reason phrases the peer sends after the 4 status code bytes
ReasonPhrases == {"OK", "Success", "Not Found"}

Min(a, b) == IF a < b THEN a ELSE b

\* insig_tmp with the elisions applied whatever the status code
insig_tmp_any_status(code, head, tail) == <<head, tail>>

\* (insig_head_tmp, insig_tail_tmp): the elisions apply to "200 " only
insig_tmp(code, head, tail) ==
    IF code = "200 " THEN <<head, tail>> ELSE <<0, 0>>

\* read_buf[from..to] of a read that began after `pos` body bytes
read_slice(pos, from, to) == [k \in 1..(to - from) |-> pos + from + k]

\* File::set_len: cut, or extend with zero bytes
set_len(file, n) ==
    IF n <= Len(file)
    THEN SubSeq(file, 1, n)
    ELSE file \o [k \in 1..(n - Len(file)) |-> 0]

StreamLeave(pc, res) ==
    /\ spc' = pc
    /\ persist_res' = res

\* the status code is read and the elisions are fixed; the headers are read;
\* with a Content-Length the file is opened (create, truncate)
StreamBegin ==
    /\ spc = "status"
    /\ pbody_path = "Some"
    /\ insig_head_tmp' = insig_tmp(status_code, insig_head, insig_tail)[1]
    /\ insig_tail_tmp' = insig_tmp(status_code, insig_head, insig_tail)[2]
    /\ \/ /\ spc' = "loop"
          /\ pbody_file' = <<>>
          /\ nleft' = msgbody_len
          /\ UNCHANGED persist_res
       \/ \* OpenOptions::open fails
          /\ StreamLeave("returned", "PersistBodyPathNotFound")
          /\ UNCHANGED <<pbody_file, nleft>>
    /\ UNCHANGED <<clientVars, initVars, dropVars, cmdVars, status_code,
                   msgbody_len, insig_head, insig_tail, peer_left, stream_pos>>
    /\ UNCHANGED <<pbody_path, reason, msgbody>>
    /\ UNCHANGED wsVars
    /\ UNCHANGED capVars
    /\ UNCHANGED httpVars

\* one round of the loop in which stream.read returns Ok(nread), nread > 0
StreamRead ==
    /\ spc = "loop"
    /\ nleft # 0
    /\ \E nread \in 1..Min(peer_left, MaxRead) :
          /\ peer_left' = peer_left - nread
          /\ stream_pos' = stream_pos + nread
          /\ IF nleft < nread
             THEN /\ StreamLeave("returned", "InvalidContentLength")
                  /\ UNCHANGED <<nleft, insig_head_tmp, pbody_file>>
             ELSE /\ nleft' = nleft - nread
                  /\ IF insig_head_tmp > nread
                     THEN /\ insig_head_tmp' = insig_head_tmp - nread
                          /\ UNCHANGED <<pbody_file, spc, persist_res>>
                     ELSE \/ /\ pbody_file' =
                                   pbody_file \o read_slice(stream_pos, insig_head_tmp, nread)
                             /\ insig_head_tmp' = 0
                             /\ UNCHANGED <<spc, persist_res>>
                          \/ \* write_all fails
                             /\ StreamLeave("returned", "PersistBodyWrite")
                             /\ UNCHANGED <<insig_head_tmp, pbody_file>>
    /\ UNCHANGED <<clientVars, initVars, dropVars, cmdVars, status_code,
                   msgbody_len, insig_head, insig_tail, insig_tail_tmp>>
    /\ UNCHANGED <<pbody_path, reason, msgbody>>
    /\ UNCHANGED wsVars
    /\ UNCHANGED capVars
    /\ UNCHANGED httpVars

\* stream.read returns Ok(0) (the peer closed) or Err: break with nleft # 0
StreamReadEnds ==
    /\ spc = "loop"
    /\ nleft # 0
    /\ StreamLeave("returned", "IncompleteFinish")
    /\ UNCHANGED <<clientVars, initVars, dropVars, cmdVars, status_code,
                   msgbody_len, insig_head, insig_tail, insig_head_tmp,
                   insig_tail_tmp, peer_left, stream_pos, nleft, pbody_file>>
    /\ UNCHANGED <<pbody_path, reason, msgbody>>
    /\ UNCHANGED wsVars
    /\ UNCHANGED capVars
    /\ UNCHANGED httpVars

\* nleft == 0: break, then
\*   let final_fsize = msgbody_len - insig_head - insig_tail;
\*   pbody_file.set_len(final_fsize as u64).expect("failed to truncate file");
\* a negative difference panics with overflow checks on; without them it wraps
\* to a length beyond i64::MAX, which set_len rejects, and the expect panics
StreamFinish ==
    /\ spc = "loop"
    /\ nleft = 0
    /\ IF msgbody_len - insig_head - insig_tail < 0
       THEN /\ StreamLeave("panicked", "")
            /\ UNCHANGED pbody_file
       ELSE /\ pbody_file' = set_len(pbody_file, msgbody_len - insig_head - insig_tail)
            /\ StreamLeave("returned", "Ok")
    /\ UNCHANGED <<clientVars, initVars, dropVars, cmdVars, status_code,
                   msgbody_len, insig_head, insig_tail, insig_head_tmp,
                   insig_tail_tmp, peer_left, stream_pos, nleft>>
    /\ UNCHANGED <<pbody_path, reason, msgbody>>
    /\ UNCHANGED wsVars
    /\ UNCHANGED capVars
    /\ UNCHANGED httpVars

\* the body is read into memory (no persistence path):
\*   stream.read_exact(&mut rbuf[0..msgbody_len]).unwrap();
\*   template.msgbody.extend(&rbuf[insig_head_tmp..msgbody_len - insig_tail_tmp]);
\* the read panics when the peer delivers fewer bytes, the subtraction or the
\* slice when the elisions exceed the body
StreamInMemory ==
    /\ spc = "status"
    /\ pbody_path = "None"
    /\ LET tmp == insig_tmp(status_code, insig_head, insig_tail) IN
       /\ insig_head_tmp' = tmp[1]
       /\ insig_tail_tmp' = tmp[2]
       /\ IF peer_left < msgbody_len
          THEN /\ StreamLeave("panicked", "")
               /\ UNCHANGED <<peer_left, stream_pos, msgbody>>
          ELSE /\ peer_left' = peer_left - msgbody_len
               /\ stream_pos' = msgbody_len
               /\ IF tmp[1] + tmp[2] > msgbody_len
                  THEN /\ StreamLeave("panicked", "")
                       /\ UNCHANGED msgbody
                  ELSE /\ msgbody' = read_slice(0, tmp[1], msgbody_len - tmp[2])
                       /\ StreamLeave("returned", "Ok")
    /\ UNCHANGED <<clientVars, initVars, dropVars, cmdVars, status_code,
                   msgbody_len, insig_head, insig_tail, nleft, pbody_file,
                   pbody_path, reason>>
    /\ UNCHANGED wsVars
    /\ UNCHANGED capVars
    /\ UNCHANGED httpVars

StreamInit ==
    /\ rstream = "Some"
    /\ ws_stream = "None"
    /\ ssids = <<>>
    /\ InitNotRunning
    /\ DropNotRunning
    /\ CmdNotRunning
    /\ spc = "status"
    /\ status_code \in StatusCodes
    /\ msgbody_len \in 0..MaxBodyLen
    /\ insig_head \in 0..MaxInsig
    /\ insig_tail \in 0..MaxInsig
    /\ insig_head_tmp = 0
    /\ insig_tail_tmp = 0
    /\ peer_left \in 0..(MaxBodyLen + 1)
    /\ stream_pos = 0
    /\ nleft = 0
    /\ pbody_file = <<>>
    /\ persist_res = ""
    /\ pbody_path \in {"None", "Some"}
    /\ reason \in ReasonPhrases
    /\ msgbody = <<>>
    /\ WsNotRunning
    /\ CapNotRunning
    /\ HttpNotRunning

StreamNext ==
    \/ StreamBegin
    \/ StreamInMemory
    \/ StreamRead
    \/ StreamReadEnds
    \/ StreamFinish

SpecStream == StreamInit /\ [][StreamNext]_vars

(***************************************************************************)
(* The WebSocket codec (wsp.rs): WebSocketFrame, WebSocketMessage.          *)
(* A byte is a number in 0..255; a mask key is written as its 4 big-endian  *)
(* bytes, <<>> standing for None.                                           *)
(***************************************************************************)
\* the bytes a payload is made of
PayloadBytes == {72, 255}
\* set_mask: Some(u32::from_be_bytes([0x37, 0xfa, 0x21, 0x3d]))
FixedMaskKey == <<55, 250, 33, 61>>
\* mask keys a frame may carry
MaskKeys == {FixedMaskKey, <<0, 0, 0, 0>>, <<255, 1, 128, 7>>}

\* usize values: a number, or usize::MAX (u64::MAX as usize)
Usize(n) == [max |-> FALSE, n |-> n]
UsizeMax == [max |-> TRUE, n |-> 0]
\* a > b for a number a and a usize b
usize_gt(a, b) == IF b.max THEN FALSE ELSE a > b.n

\* WspSett
Sett(k, n) == [kind |-> k, ml |-> n]

\* the settings a caller passes: at most one of each group, in this order
SettsChoices ==
    {a \o b \o c \o d :
        a \in {<<>>, <<Sett("TextMsg", 0)>>, <<Sett("BinaryMsg", 0)>>,
                <<Sett("TextMsg", 0), Sett("BinaryMsg", 0)>>, <<Sett("BinaryMsg", 0), Sett("TextMsg", 0)>>},
        b \in {<<>>, <<Sett("Mask", 0)>>},
        c \in {<<>>, <<Sett("Ping", 0)>>, <<Sett("Pong", 0)>>},
        d \in {<<>>} \cup {<<Sett("MaxFrameLen", ml)>> : ml \in 0..MaxMaxFrameLen}}

\* the settings of the BiDi commands without Mask
bidi_setts_no_mask == <<Sett("TextMsg", 0)>>

\* vec![WspSett::TextMsg, WspSett::Mask] of gen_ctx, navi and ctx_tree
bidi_setts == <<Sett("TextMsg", 0), Sett("Mask", 0)>>

\* WebSocketMessage::get_default_max_flen
get_default_max_flen(kinds) ==
    IF kinds[1] THEN Usize(125)
    ELSE IF kinds[2] THEN Usize(65535)
    ELSE IF kinds[3] THEN UsizeMax
    ELSE Usize(0)

\* the "for sett in setts" loop of set_message_data, from the k-th setting on
RECURSIVE fold_setts(_, _, _)
fold_setts(ss, k, acc) ==
    IF k > Len(ss) THEN acc
    ELSE LET s == ss[k] IN
         fold_setts(ss, k + 1,
            CASE s.kind = "TextMsg" -> [acc EXCEPT !.is_text_msg = TRUE]
              [] s.kind = "BinaryMsg" -> [acc EXCEPT !.is_text_msg = FALSE]
              [] s.kind = "Ping" -> [acc EXCEPT !.is_ping = TRUE]
              [] s.kind = "Pong" -> [acc EXCEPT !.is_pong = TRUE]
              [] s.kind = "Mask" -> [acc EXCEPT !.need_mask = TRUE]
              [] s.kind = "MaxFrameLen" -> [acc EXCEPT !.max_flen = Usize(s.ml)])

\* the locals of set_message_data before the loop over the settings
setts_defaults(kinds) ==
    [is_text_msg |-> FALSE, max_flen |-> get_default_max_flen(kinds),
     need_mask |-> FALSE, is_ping |-> FALSE, is_pong |-> FALSE]

\* WebSocketFrame
Frame(kind, ops, plen, mkey, payload) ==
    [size_kind |-> kind, ops |-> ops, plen |-> plen, mkey |-> mkey,
     payload |-> payload]

\* with_size_kinds taking the smallest allowed kind whatever the length
with_size_kinds_any_len(kinds, actual_flen) ==
    IF kinds[1] THEN "S"
    ELSE IF kinds[2] THEN "M"
    ELSE IF kinds[3] THEN "L"
    ELSE "SizeKindNotFound"

\* WebSocketFrame::with_size_kinds: the size kind of the new frame, or the error
with_size_kinds(kinds, actual_flen) ==
    IF actual_flen <= 125
    THEN IF kinds[1] THEN "S"
         ELSE IF kinds[2] THEN "M"
         ELSE IF kinds[3] THEN "L"
         ELSE "SizeKindNotFound"
    ELSE IF actual_flen <= 65535
    THEN IF kinds[2] THEN "M"
         ELSE IF kinds[3] THEN "L"
         ELSE "SizeKindNotFound"
    ELSE IF kinds[3] THEN "L"
         ELSE "SizeKindNotFound"

\* ops &= 0b1111_0000; ops |= nibble
set_low_nibble(ops, nibble) == (ops \div 16) * 16 + nibble
set_text_frame(ops) == set_low_nibble(ops, 1)
\* set_binary_frame writing the text opcode
set_binary_frame_as_text(ops) == set_low_nibble(ops, 1)
set_binary_frame(ops) == set_low_nibble(ops, 2)
set_ping(ops) == set_low_nibble(ops, 9)
set_pong(ops) == set_low_nibble(ops, 10)
\* set_fin leaving the opcode byte as it is
set_fin_never(ops) == ops

\* ops |= 0b10000000
set_fin(ops) == IF ops >= 128 THEN ops ELSE ops + 128

\* the opcode byte of the first frame
first_frame_ops(s) ==
    LET a == IF s.is_text_msg THEN set_text_frame(0) ELSE set_binary_frame(0)
        b == IF s.is_ping THEN set_ping(a) ELSE a
    IN IF s.is_pong THEN set_pong(b) ELSE b

\* set_payload / set_plen: whether the length fits the frame's size kind
fits_size_kind(kind, len) ==
    CASE kind = "S" -> len <= 125
      [] kind = "M" -> len <= 65535
      [] OTHER -> TRUE

\* a ^ b on bytes, bit by bit
RECURSIVE xor_bits(_, _, _)
xor_bits(a, b, n) ==
    IF n = 0 THEN 0
    ELSE (((a % 2) + (b % 2)) % 2) + 2 * xor_bits(a \div 2, b \div 2, n - 1)
xor8(a, b) == xor_bits(a, b, 8)

\* masking by addition instead of exclusive or
apply_mask_add(bytes, key) ==
    [i \in 1..Len(bytes) |-> (bytes[i] + key[((i - 1) % 4) + 1]) % 256]

\* for i in 0..len { nb = orig[i] ^ mkey_bytes[i % 4] }
apply_mask(bytes, key) ==
    [i \in 1..Len(bytes) |-> xor8(bytes[i], key[((i - 1) % 4) + 1])]

\* to_be_bytes of a length, in n bytes
RECURSIVE to_be_bytes(_, _)
to_be_bytes(v, n) ==
    IF n = 0 THEN <<>> ELSE Append(to_be_bytes(v \div 256, n - 1), v % 256)
\* from_be_bytes
RECURSIVE from_be_bytes(_)
from_be_bytes(bytes) ==
    IF Len(bytes) = 0 THEN 0
    ELSE from_be_bytes(SubSeq(bytes, 1, Len(bytes) - 1)) * 256 + bytes[Len(bytes)]

\* WebSocketFrame::to_vec
frame_to_vec(f) ==
    LET maskbit == IF f.mkey # <<>> THEN 128 ELSE 0
        len_bytes ==
            CASE f.size_kind = "S" ->
                     LET byte2 == f.plen % 256 IN
                     <<IF byte2 < 128 THEN byte2 + maskbit ELSE byte2>>
              [] f.size_kind = "M" -> <<126 + maskbit>> \o to_be_bytes(f.plen % 65536, 2)
              [] OTHER -> <<127 + maskbit>> \o to_be_bytes(f.plen, 8)
    IN <<f.ops>> \o len_bytes
         \o (IF f.mkey # <<>>
             THEN f.mkey \o apply_mask(f.payload, f.mkey)
             ELSE f.payload)

\* WebSocketMessage::to_vec
RECURSIVE message_to_vec(_)
message_to_vec(fs) ==
    IF Len(fs) = 0 THEN <<>>
    ELSE frame_to_vec(fs[1]) \o message_to_vec(SubSeq(fs, 2, Len(fs)))

\* one round of the loop of WebSocketMessage::from_stream: the frame read
\* from the bytes after position pos, whether it had FIN, where the next one
\* begins, and whether a read_exact ran out of bytes
read_frame(bytes, pos) ==
    LET have(n) == n <= Len(bytes)
        b0 == IF have(pos + 1) THEN bytes[pos + 1] ELSE 0
        b1 == IF have(pos + 2) THEN bytes[pos + 2] ELSE 0
        is_fin == b0 >= 128
        is_mask == b1 >= 128
        plen_hint == b1 % 128
        ext == IF plen_hint < 126 THEN 0 ELSE IF plen_hint = 126 THEN 2 ELSE 8
        plen == IF plen_hint < 126 THEN plen_hint
                ELSE from_be_bytes(SubSeq(bytes, pos + 3, Min(pos + 2 + ext, Len(bytes))))
        kind == IF plen_hint < 126 THEN "S" ELSE IF plen_hint = 126 THEN "M" ELSE "L"
        kpos == pos + 2 + ext
        key == IF is_mask THEN SubSeq(bytes, kpos + 1, Min(kpos + 4, Len(bytes))) ELSE <<>>
        dpos == kpos + (IF is_mask THEN 4 ELSE 0)
        data == SubSeq(bytes, dpos + 1, Min(dpos + plen, Len(bytes)))
        short == ~have(dpos + plen)
    IN [short |-> short,
        fin |-> is_fin,
        next |-> dpos + plen,
        frame |-> Frame(kind, 0, plen,
                        key,
                        IF is_mask /\ ~short THEN apply_mask(data, key) ELSE data)]

\* WebSocketMessage::get_message_data: InvalidDataLen when a frame's plen
\* exceeds the cap of its size kind, else the payloads concatenated
RECURSIVE concat_payloads(_)
concat_payloads(fs) ==
    IF Len(fs) = 0 THEN <<>>
    ELSE fs[1].payload \o concat_payloads(SubSeq(fs, 2, Len(fs)))
get_message_data(fs) ==
    IF \E k \in 1..Len(fs) : ~fits_size_kind(fs[k].size_kind, fs[k].plen)
    THEN [res |-> "InvalidDataLen", data |-> <<>>]
    ELSE [res |-> "Ok", data |-> concat_payloads(fs)]

\* every frame cut to a single byte
actual_flen_one_byte(rest_len, max_flen) == 1

\* let actual_flen = if rest_len > max_flen { max_flen } else { rest_len }
actual_flen_of(rest_len, max_flen) ==
    IF usize_gt(rest_len, max_flen) THEN max_flen.n ELSE rest_len

\* payloads of at most n bytes
RECURSIVE PayloadsUpTo(_)
PayloadsUpTo(n) ==
    IF n = 0 THEN {<<>>}
    ELSE PayloadsUpTo(n - 1)
         \cup {Append(p, b) : p \in {q \in PayloadsUpTo(n - 1) : Len(q) = n - 1},
                              b \in PayloadBytes}

WsLeave(pc, res) ==
    /\ ws_pc' = pc
    /\ ws_res' = res

\* set_message_data up to its loop: the settings are folded, then
\*   if max_flen == 0 { return Err(InvalidMaxFrameLen) }
\*   if total_len == 0 { return Err(InvalidDataLen) }
WsSetMessageData ==
    /\ ws_pc = "new"
    /\ LET s == fold_setts(setts, 1, setts_defaults(size_kinds)) IN
       /\ ws_sett' = s
       /\ IF ~s.max_flen.max /\ s.max_flen.n = 0
          THEN WsLeave("failed", "InvalidMaxFrameLen")
          ELSE IF Len(bin_data) = 0
          THEN WsLeave("failed", "InvalidDataLen")
          ELSE /\ ws_pc' = "framing"
               /\ UNCHANGED ws_res
    /\ UNCHANGED <<clientVars, initVars, dropVars, cmdVars, streamVars, capVars,
                   ws_origin, ws_prev,
                   size_kinds, bin_data, setts, framed_len, nexf_starti, frames,
                   ws_wire, ws_rpos, rframes, ws_data, probe_flen, probe_res, httpVars>>

\* one round of "while framed_len != total_len"
WsFrameRound ==
    /\ ws_pc = "framing"
    /\ framed_len # Len(bin_data)
    /\ LET total_len == Len(bin_data)
           rest_len == total_len - framed_len
           actual_flen == actual_flen_of(rest_len, ws_sett.max_flen)
           kind == with_size_kinds(size_kinds, actual_flen)
           curf_starti == nexf_starti
           ops1 == IF curf_starti = 0 THEN first_frame_ops(ws_sett) ELSE 0
           ops2 == IF framed_len + actual_flen = total_len THEN set_fin(ops1) ELSE ops1
       IN IF kind = "SizeKindNotFound"
          THEN /\ WsLeave("failed", "SizeKindNotFound")
               /\ UNCHANGED <<framed_len, nexf_starti, frames>>
          ELSE IF ~fits_size_kind(kind, actual_flen)
          THEN /\ WsLeave("failed", "InsufficientSize")
               /\ UNCHANGED <<framed_len, nexf_starti, frames>>
          ELSE /\ nexf_starti' = nexf_starti + actual_flen
               /\ framed_len' = framed_len + actual_flen
               /\ frames' = Append(frames,
                                Frame(kind, ops2, actual_flen,
                                      IF ws_sett.need_mask THEN FixedMaskKey ELSE <<>>,
                                      SubSeq(bin_data, curf_starti + 1,
                                             curf_starti + actual_flen)))
               /\ UNCHANGED <<ws_pc, ws_res>>
    /\ UNCHANGED <<clientVars, initVars, dropVars, cmdVars, streamVars, capVars,
                   ws_origin, ws_prev,
                   size_kinds, bin_data, setts, ws_sett, ws_wire, ws_rpos, rframes,
                   ws_data, probe_flen, probe_res, httpVars>>

\* framed_len == total_len: set_message_data returns Ok(())
WsFramed ==
    /\ ws_pc = "framing"
    /\ framed_len = Len(bin_data)
    /\ WsLeave("encoded", "Ok")
    /\ UNCHANGED <<clientVars, initVars, dropVars, cmdVars, streamVars, capVars,
                   ws_origin, ws_prev,
                   size_kinds, bin_data, setts, ws_sett, framed_len, nexf_starti,
                   frames, ws_wire, ws_rpos, rframes, ws_data, probe_flen,
                   probe_res, httpVars>>

\* WebSocketMessage::send_through: to_vec, then write_all
WsSendThrough ==
    /\ ws_pc = "encoded"
    /\ ws_wire' = message_to_vec(frames)
    /\ ws_pc' = "sent"
    /\ UNCHANGED <<clientVars, initVars, dropVars, cmdVars, streamVars, capVars,
                   ws_origin, ws_prev,
                   size_kinds, bin_data, setts, ws_sett, framed_len, nexf_starti,
                   frames, ws_res, ws_rpos, rframes, ws_data, probe_flen,
                   probe_res, httpVars>>

\* one round of "while !is_all_frames_read" of WebSocketMessage::from_stream,
\* reading the bytes that were written
WsFromStreamRound ==
    /\ ws_pc = "sent"
    /\ LET r == read_frame(ws_wire, ws_rpos) IN
       IF r.short
       THEN \* read_exact(..).unwrap()
            /\ ws_pc' = "panicked"
            /\ UNCHANGED <<ws_rpos, rframes, ws_data>>
       ELSE /\ ws_rpos' = r.next
            /\ rframes' = Append(rframes, r.frame)
            /\ IF r.fin
               THEN /\ ws_pc' = "decoded"
                    /\ ws_data' = get_message_data(Append(rframes, r.frame))
               ELSE UNCHANGED <<ws_pc, ws_data>>
    /\ UNCHANGED <<clientVars, initVars, dropVars, cmdVars, streamVars, capVars,
                   ws_origin, ws_prev,
                   size_kinds, bin_data, setts, ws_sett, framed_len, nexf_starti,
                   frames, ws_res, ws_wire, probe_flen, probe_res, httpVars>>

\* a message as new() and the allow_* calls leave it, with the payload and
\* the settings of the set_message_data call to come; the BiDi commands
\* allow every size kind and pass bidi_setts
WsInit ==
    /\ rstream = "Some"
    /\ ws_stream = "Some"
    /\ ssids = <<>>
    /\ InitNotRunning
    /\ DropNotRunning
    /\ CmdNotRunning
    /\ StreamNotRunning
    /\ CapNotRunning
    /\ HttpNotRunning
    /\ ws_pc = "new"
    /\ ws_origin \in {"bidi", "codec"}
    /\ bin_data \in PayloadsUpTo(MaxPayloadLen)
    /\ IF ws_origin = "bidi"
       THEN size_kinds = <<TRUE, TRUE, TRUE>> /\ setts = bidi_setts
       ELSE size_kinds \in [1..3 -> BOOLEAN] /\ setts \in SettsChoices
    /\ ws_sett = setts_defaults(<<FALSE, FALSE, FALSE>>)
    /\ framed_len = 0
    /\ nexf_starti = 0
    /\ frames = <<>>
    /\ ws_res = ""
    /\ ws_wire = <<>>
    /\ ws_rpos = 0
    /\ rframes = <<>>
    /\ ws_data = [res |-> "", data |-> <<>>]
    /\ probe_flen = 0
    /\ probe_res = ""
    /\ ws_prev = <<>>

WsNext ==
    \/ WsSetMessageData
    \/ WsFrameRound
    \/ WsFramed
    \/ WsSendThrough
    \/ WsFromStreamRound

SpecWs == WsInit /\ [][WsNext]_vars

\* the payloads and the settings of the calls on a message that is encoded
\* more than once
AgainPayloads == {<<>>, <<72>>, <<72, 255>>}
AgainSetts == {<<>>, <<Sett("MaxFrameLen", 0)>>, <<Sett("MaxFrameLen", 1)>>}

\* set_message_data is called again on the message a call returned from:
\*   let mut framed_len = 0;  let mut nexf_starti = 0;
\* self.frames is left as the earlier calls left it
WsSetAgain ==
    /\ ws_pc \in {"encoded", "failed"}
    /\ Len(ws_prev) + 1 < MaxSetCalls
    /\ ws_prev' = Append(ws_prev, [res |-> ws_res, data |-> bin_data,
                                   nframes |-> Len(frames)])
    /\ \E d \in AgainPayloads, s \in AgainSetts :
          /\ bin_data' = d
          /\ setts' = s
    /\ ws_pc' = "new"
    /\ ws_res' = ""
    /\ framed_len' = 0
    /\ nexf_starti' = 0
    /\ UNCHANGED <<clientVars, initVars, dropVars, cmdVars, streamVars, capVars,
                   ws_origin, size_kinds, ws_sett, frames, ws_wire, ws_rpos,
                   rframes, ws_data, probe_flen, probe_res, httpVars>>

WsAgainInit ==
    /\ WsInit
    /\ ws_origin = "codec"
    /\ bin_data \in AgainPayloads
    /\ setts \in AgainSetts
    /\ size_kinds \in {<<TRUE, TRUE, TRUE>>, <<TRUE, FALSE, FALSE>>,
                       <<FALSE, FALSE, FALSE>>}

WsAgainNext ==
    \/ WsSetMessageData
    \/ WsFrameRound
    \/ WsFramed
    \/ WsSetAgain

SpecWsAgain == WsAgainInit /\ [][WsAgainNext]_vars

\* frame lengths around the caps of the size kinds
FrameLens ==
    {0, 1, 2, 124, 125, 126, 127, 65534, 65535, 65536, 65537, 2147483647}

\* WebSocketFrame::with_size_kinds is called
SizeKindCreate ==
    /\ ws_pc = "new"
    /\ \E flen \in FrameLens :
          /\ probe_flen' = flen
          /\ probe_res' = with_size_kinds(size_kinds, flen)
    /\ ws_pc' = "created"
    /\ UNCHANGED <<clientVars, initVars, dropVars, cmdVars, streamVars, capVars,
                   ws_origin, ws_prev,
                   size_kinds, bin_data, setts, ws_sett, framed_len, nexf_starti,
                   frames, ws_res, ws_wire, ws_rpos, rframes, ws_data, httpVars>>

SizeKindInit ==
    /\ rstream = "Some"
    /\ ws_stream = "Some"
    /\ ssids = <<>>
    /\ InitNotRunning
    /\ DropNotRunning
    /\ CmdNotRunning
    /\ StreamNotRunning
    /\ CapNotRunning
    /\ HttpNotRunning
    /\ ws_pc = "new"
    /\ ws_origin = "codec"
    /\ bin_data = <<>>
    /\ size_kinds \in [1..3 -> BOOLEAN]
    /\ setts = <<>>
    /\ ws_sett = setts_defaults(<<FALSE, FALSE, FALSE>>)
    /\ framed_len = 0
    /\ nexf_starti = 0
    /\ frames = <<>>
    /\ ws_res = ""
    /\ ws_wire = <<>>
    /\ ws_rpos = 0
    /\ rframes = <<>>
    /\ ws_data = [res |-> "", data |-> <<>>]
    /\ probe_flen = 0
    /\ probe_res = ""
    /\ ws_prev = <<>>

SizeKindNext == SizeKindCreate

SpecSizeKind == SizeKindInit /\ [][SizeKindNext]_vars

(***************************************************************************)
(* The capability request: CommCapRequ over FirefoxCapa (GeckoCapRequ) and  *)
(* over ChromiumCapa (ChromCapRequ).  An Option is <<>> for None and <<v>>  *)
(* for Some(v).                                                              *)
(***************************************************************************)
None == <<>>
Some(v) == <<v>>
is_some(opt) == opt # None

\* Proxy::default() and Timeouts::default()
ProxyDefault ==
    [proxy_type |-> "", proxy_autoconfig_url |-> "", ftp_proxy |-> "",
     http_proxy |-> "", no_proxy |-> <<>>, ssl_proxy |-> "", socks_proxy |-> "",
     socks_version |-> 0]
TimeoutsDefault == [script |-> 30000, page_load |-> 300000, implicit |-> 0]

\* a capability by where CommCapa keeps it: "plain" is an Option field of
\* CommCapa, "proxy" a field of its Option<Proxy>, "timeouts" a field of its
\* Option<Timeouts>, "ext" an Option field of the vendor's extension block
Fld(kind, name) == [kind |-> kind, name |-> name]

\* the capabilities in the order from_other_as_w3c and from_other copy them
W3cFields ==
    <<Fld("plain", "browser_name"), Fld("plain", "browser_version"),
      Fld("plain", "platform_name"), Fld("plain", "accept_insecure_certs"),
      Fld("plain", "page_load_strategy"), Fld("proxy", "proxy_type"),
      Fld("proxy", "proxy_autoconfig_url"), Fld("proxy", "ftp_proxy"),
      Fld("proxy", "http_proxy"), Fld("proxy", "no_proxy"),
      Fld("proxy", "ssl_proxy"), Fld("proxy", "socks_proxy"),
      Fld("proxy", "socks_version"), Fld("plain", "window_rect"),
      Fld("timeouts", "script"), Fld("timeouts", "page_load"),
      Fld("timeouts", "implicit"), Fld("plain", "strict_file_interactability"),
      Fld("plain", "unhandled_prompt_behavior"), Fld("plain", "wsurl")>>

\* the vendor capabilities in the order from_other copies them
ExtFields(vendor) ==
    IF vendor = "gecko"
    THEN <<Fld("ext", "binary"), Fld("ext", "args"), Fld("ext", "profile"),
           Fld("ext", "prefs")>>
    ELSE <<Fld("ext", "binary"), Fld("ext", "args"), Fld("ext", "extensions"),
           Fld("ext", "prefs"), Fld("ext", "detach"),
           Fld("ext", "debugger_address"), Fld("ext", "exclude_switches"),
           Fld("ext", "minidump_path"), Fld("ext", "window_types")>>

\* FirefoxCapa::default() / ChromiumCapa::default()
CapaDefault(vendor) ==
    [browser_name |-> None, browser_version |-> None, platform_name |-> None,
     accept_insecure_certs |-> None, page_load_strategy |-> None, proxy |-> None,
     window_rect |-> None, timeouts |-> None,
     strict_file_interactability |-> None, unhandled_prompt_behavior |-> None,
     wsurl |-> None,
     ext |-> [n \in {ExtFields(vendor)[k].name : k \in 1..Len(ExtFields(vendor))}
                |-> None]]

\* the getters of W3cCapaGetter, FirefoxCapaGetter and ChromiumCapaGetter
get_field(c, fld) ==
    CASE fld.kind = "plain" -> c[fld.name]
      [] fld.kind = "proxy" ->
            IF c.proxy = None THEN None ELSE Some(c.proxy[1][fld.name])
      [] fld.kind = "timeouts" ->
            IF c.timeouts = None THEN None ELSE Some(c.timeouts[1][fld.name])
      [] fld.kind = "ext" -> c.ext[fld.name]

\* the setters of W3cCapaSetter, FirefoxCapaSetter and ChromiumCapaSetter;
\* a proxy or timeouts setter starts from the default block when there is
\* none, and FirefoxCapa::set_profile assigns self.ext.binary
set_field(c, fld, arg) ==
    CASE fld.kind = "plain" -> [c EXCEPT ![fld.name] = Some(arg)]
      [] fld.kind = "proxy" ->
            [c EXCEPT !.proxy =
                Some([(IF c.proxy = None THEN ProxyDefault ELSE c.proxy[1])
                         EXCEPT ![fld.name] = arg])]
      [] fld.kind = "timeouts" ->
            [c EXCEPT !.timeouts =
                Some([(IF c.timeouts = None THEN TimeoutsDefault ELSE c.timeouts[1])
                         EXCEPT ![fld.name] = arg])]
      [] fld.kind = "ext" ->
            IF fld.name = "profile"
            THEN [c EXCEPT !.ext.binary = Some(arg)]
            ELSE [c EXCEPT !.ext[fld.name] = Some(arg)]

\* if let Some(v) = other.<getter>() { newme.<setter>(v); }, field after field
RECURSIVE copy_fields(_, _, _)
copy_fields(newme, other, fields) ==
    IF fields = <<>> THEN newme
    ELSE LET v == get_field(other, Head(fields)) IN
         copy_fields(IF is_some(v) THEN set_field(newme, Head(fields), v[1])
                     ELSE newme,
                     other, Tail(fields))

\* FirefoxCapa::from_other_as_w3c / ChromiumCapa::from_other_as_w3c
from_other_as_w3c(vendor, other) ==
    copy_fields(CapaDefault(vendor), other, W3cFields)

\* FirefoxCapa::from_other / ChromiumCapa::from_other
from_other(vendor, other) ==
    copy_fields(CapaDefault(vendor), other, W3cFields \o ExtFields(vendor))

\* is_conflict_with_as_w3c of FirefoxCapa and of ChromiumCapa
is_conflict_with_as_w3c(self, other) ==
    \E fld \in {Fld("plain", "browser_name"), Fld("plain", "browser_version"),
                Fld("plain", "platform_name"), Fld("plain", "accept_insecure_certs"),
                Fld("plain", "page_load_strategy"), Fld("proxy", "proxy_type"),
                Fld("plain", "window_rect"), Fld("timeouts", "script"),
                Fld("plain", "strict_file_interactability"),
                Fld("plain", "unhandled_prompt_behavior")} :
        is_some(get_field(self, fld)) /\ is_some(get_field(other, fld))

\* is_conflict_with looking at the W3C capabilities only
is_conflict_with_w3c_only(vendor, self, other) ==
    is_conflict_with_as_w3c(self, other)

\* is_conflict_with of FirefoxCapa (adds binary, args, profile) and of
\* ChromiumCapa (adds binary, args)
is_conflict_with(vendor, self, other) ==
    \/ is_conflict_with_as_w3c(self, other)
    \/ \E fld \in {Fld("ext", "binary"), Fld("ext", "args")}
                     \cup (IF vendor = "gecko" THEN {Fld("ext", "profile")} ELSE {}) :
          is_some(get_field(self, fld)) /\ is_some(get_field(other, fld))

CapRequ(am, fm) == [always_match |-> am, first_match |-> fm]

\* mandate_as_w3c keeping every entry of first_match
mandate_as_w3c_keep_all(vendor, requ, other) ==
    CapRequ(from_other_as_w3c(vendor, other), requ.first_match)

\* W3cCapRequSetter::mandate_as_w3c
mandate_as_w3c(vendor, requ, other) ==
    LET newone == from_other_as_w3c(vendor, other)
        keep(x) == ~is_conflict_with_as_w3c(newone, x)
    IN CapRequ(newone, SelectSeq(requ.first_match, keep))

\* W3cCapRequSetter::allow_as_w3c
allow_as_w3c(vendor, requ, other) ==
    IF ~is_conflict_with_as_w3c(requ.always_match, other)
    THEN CapRequ(requ.always_match,
                 Append(requ.first_match, from_other_as_w3c(vendor, other)))
    ELSE requ

\* mandate emptying first_match
mandate_clear_all(vendor, requ, other) == CapRequ(from_other(vendor, other), <<>>)

\* GeckoCapRequSetter::mandate / ChromCapRequSetter::mandate
mandate(vendor, requ, other) ==
    LET newone == from_other(vendor, other)
        keep(x) == ~is_conflict_with(vendor, newone, x)
    IN CapRequ(newone, SelectSeq(requ.first_match, keep))

\* allow pushing the entry whatever always_match holds
allow_always_push(vendor, requ, other) ==
    CapRequ(requ.always_match, Append(requ.first_match, from_other(vendor, other)))

\* GeckoCapRequSetter::allow / ChromCapRequSetter::allow
allow(vendor, requ, other) ==
    IF ~is_conflict_with(vendor, requ.always_match, other)
    THEN CapRequ(requ.always_match,
                 Append(requ.first_match, from_other(vendor, other)))
    ELSE requ

\* capabilities as the setters of FirefoxCapa / ChromiumCapa build them from
\* default()
Capas(vendor) ==
    LET d == CapaDefault(vendor)
        linux == set_field(d, Fld("plain", "platform_name"), "linux")
        win == set_field(d, Fld("plain", "platform_name"), "win")
        edge == set_field(d, Fld("plain", "browser_name"), "edge")
    IN {d, linux, win,
        set_field(edge, Fld("plain", "platform_name"), "linux"),
        set_field(d, Fld("plain", "browser_version"), "102"),
        set_field(d, Fld("plain", "accept_insecure_certs"), TRUE),
        set_field(d, Fld("plain", "page_load_strategy"), "eager"),
        set_field(d, Fld("proxy", "ftp_proxy"), "ftp.example"),
        set_field(d, Fld("plain", "window_rect"), TRUE),
        set_field(d, Fld("timeouts", "page_load"), 5),
        set_field(d, Fld("plain", "strict_file_interactability"), FALSE),
        set_field(d, Fld("plain", "unhandled_prompt_behavior"), "dismiss"),
        set_field(d, Fld("plain", "wsurl"), ""),
        set_field(d, Fld("ext", "binary"), "/usr/bin/browser"),
        set_field(linux, Fld("ext", "args"), <<"-headless">>),
        set_field(d, Fld("ext", "prefs"), <<"key", "value">>)}
       \cup (IF vendor = "gecko"
             THEN {set_field(d, Fld("plain", "browser_name"), "firefox"),
                   set_field(d, Fld("ext", "profile"), "/tmp/profile")}
             ELSE {set_field(d, Fld("plain", "browser_name"), "chrome"),
                   set_field(d, Fld("ext", "detach"), TRUE)})

\* one call on the request: the result replaces it and the call is recorded
CapCall(op, other, requ) ==
    /\ requ_calls < MaxRequCalls
    /\ requ_calls' = requ_calls + 1
    /\ requ_op' = op
    /\ requ_other' = other
    /\ requ_before' = CapRequ(always_match, first_match)
    /\ always_match' = requ.always_match
    /\ first_match' = requ.first_match
    /\ UNCHANGED <<requ_vendor, ser_in, ser_out, clientVars, initVars, dropVars,
                   cmdVars, streamVars, wsVars, httpVars>>

CapMandateAsW3c ==
    /\ requ_vendor \in {"gecko", "chrom"}
    /\ \E other \in Capas(requ_vendor) :
          CapCall("mandate_as_w3c", other,
                  mandate_as_w3c(requ_vendor, CapRequ(always_match, first_match), other))

CapAllowAsW3c ==
    /\ requ_vendor \in {"gecko", "chrom"}
    /\ \E other \in Capas(requ_vendor) :
          CapCall("allow_as_w3c", other,
                  allow_as_w3c(requ_vendor, CapRequ(always_match, first_match), other))

CapMandate ==
    /\ requ_vendor \in {"gecko", "chrom"}
    /\ \E other \in Capas(requ_vendor) :
          CapCall("mandate", other,
                  mandate(requ_vendor, CapRequ(always_match, first_match), other))

CapAllow ==
    /\ requ_vendor \in {"gecko", "chrom"}
    /\ \E other \in Capas(requ_vendor) :
          CapCall("allow", other,
                  allow(requ_vendor, CapRequ(always_match, first_match), other))

\* GeckoCapRequ::default() / ChromCapRequ::default()
CapInit ==
    /\ rstream = "None"
    /\ ws_stream = "None"
    /\ ssids = <<>>
    /\ InitNotRunning
    /\ DropNotRunning
    /\ CmdNotRunning
    /\ StreamNotRunning
    /\ WsNotRunning
    /\ HttpNotRunning
    /\ requ_vendor \in {"gecko", "chrom"}
    /\ always_match = CapaDefault(requ_vendor)
    /\ first_match = <<>>
    /\ requ_calls = 0
    /\ requ_op = ""
    /\ requ_other = <<>>
    /\ requ_before = <<>>
    /\ ser_in = <<>>
    /\ ser_out = <<>>

CapNext ==
    \/ CapMandateAsW3c
    \/ CapAllowAsW3c
    \/ CapMandate
    \/ CapAllow

SpecCapRequ == CapInit /\ [][CapNext]_vars

(***************************************************************************)
(* The HTTP codec (httpp.rs) and the WebSocket client handshake            *)
(* (wsp.rs).  A byte is a one-character string, "CR" and "LF" standing for *)
(* 13 and 10; a Vec<u8> is a sequence of bytes, indexed from 1 where the    *)
(* code indexes from 0.                                                     *)
(***************************************************************************)
CRLF == <<"CR", "LF">>

\* the decimal digits of format!("{}", n)
RECURSIVE to_string(_)
to_string(n) ==
    LET Digits == <<"0", "1", "2", "3", "4", "5", "6", "7", "8", "9">>
    IN IF n < 10 THEN <<Digits[n + 1]>>
       ELSE to_string(n \div 10) \o <<Digits[(n % 10) + 1]>>

\* format!("<Name>: {}\r\n", n), the line every header setter appends
hdrline(name, n) == name \o <<":", " ">> \o n \o CRLF

\* the names the setters write
SetterNames ==
    [host |-> <<"H", "o", "s", "t">>,
     connection |-> <<"C", "o", "n", "n", "e", "c", "t", "i", "o", "n">>,
     upgrade |-> <<"U", "p", "g", "r", "a", "d", "e">>,
     ws_key |-> <<"S", "e", "c", "-", "W", "e", "b", "S", "o", "c", "k", "e",
           "t", "-", "K", "e", "y">>,
     ws_ver |-> <<"S", "e", "c", "-", "W", "e", "b", "S", "o", "c", "k", "e",
           "t", "-", "V", "e", "r", "s", "i", "o", "n">>,
     ws_accept |-> <<"S", "e", "c", "-", "W", "e", "b", "S", "o", "c", "k",
           "e", "t", "-", "A", "c", "c", "e", "p", "t">>,
     ua |-> <<"U", "s", "e", "r", "-", "A", "g", "e", "n", "t">>,
     content_length |-> <<"C", "o", "n", "t", "e", "n", "t", "-", "L", "e",
           "n", "g", "t", "h">>]

\* HttpRequestParts / HttpResponseParts: a response keeps its status where a
\* request keeps its method and URI
HttpParts(method, requri, httpver, status, headers, body) ==
    [method |-> method, requri |-> requri, httpver |-> httpver,
     status |-> status, headers |-> headers, msgbody |-> body]

\* from_scratch() followed by http1p1() and get / post / delete
request_from_scratch(method, uri) ==
    HttpParts(method, uri, <<"H", "T", "T", "P", "/", "1", ".", "1">>, <<>>,
          <<>>, <<>>)

\* host, connection, upgrade, ws_key, ws_ver, ws_accept, ua
add_header(parts, setter, n) ==
    [parts EXCEPT !.headers = @ \o hdrline(SetterNames[setter], n)]

\* HttpRequestParts::msgbody_from_slice
msgbody_from_slice(parts, b) ==
    [parts EXCEPT !.msgbody = @ \o b,
                  !.headers = @ \o hdrline(SetterNames.content_length,
                                           to_string(Len(b)))]

\* HttpRequestParts::to_vec and HttpResponseParts::to_vec
to_vec(parts) ==
    (IF parts.status = <<>>
     THEN parts.method \o <<" ">> \o parts.requri \o <<" ">> \o parts.httpver
     ELSE parts.httpver \o <<" ">> \o parts.status)
    \o CRLF \o parts.headers \o CRLF \o parts.msgbody

\* what a getter or from_stream returns: Ok(val), Err(err), or a panic (an
\* index out of range, an unwrap of an Err, panic!("bug"))
HttpRes(kind, val) == [kind |-> kind, val |-> val]

\* h_name and h_name_alt of the getters
GetterNames ==
    [get_content_length |-> <<<<"C", "o", "n", "t", "e", "n", "t", "-", "L",
          "e", "n", "g", "t", "h", ":">>,
                              <<"c", "o", "n", "t", "e", "n", "t", "-", "l",
                                    "e", "n", "g", "t", "h", ":">>>>,
     get_connection |-> <<<<"C", "o", "n", "n", "e", "c", "t", "i", "o", "n",
           ":">>, <<"c", "o", "n", "n", "e", "c", "t", "i", "o", "n", ":">>>>,
     get_upgrade |-> <<<<"U", "p", "g", "r", "a", "d", "e", ":">>, <<"u",
           "p", "g", "r", "a", "d", "e", ":">>>>,
     get_host |-> <<<<"H", "o", "s", "t", ":">>, <<"h", "o", "s", "t",
           ":">>>>,
     get_ws_key |-> <<<<"S", "e", "c", "-", "W", "e", "b", "S", "o", "c",
           "k", "e", "t", "-", "K", "e", "y", ":">>,
                      <<"s", "e", "c", "-", "w", "e", "b", "S", "o", "c",
                            "k", "e", "t", "-", "k", "e", "y", ":">>>>,
     get_ws_ver |-> <<<<"S", "e", "c", "-", "W", "e", "b", "S", "o", "c",
           "k", "e", "t", "-", "V", "e", "r", "s", "i", "o", "n", ":">>,
                      <<"s", "e", "c", "-", "w", "e", "b", "s", "o", "c",
                            "k", "e", "t", "-", "v", "e", "r", "s", "i", "o",
                                  "n", ":">>>>,
     get_ws_accept |-> <<<<"S", "e", "c", "-", "W", "e", "b", "S", "o", "c",
           "k", "e", "t", "-", "A", "c", "c", "e", "p", "t", ":">>,
                         <<"s", "e", "c", "-", "w", "e", "b", "S", "o", "c",
                               "k", "e", "t", "-", "a", "c", "c", "e", "p",
                                     "t", ":">>>>]

\* the least index of a set of indexes, -1 when it is empty
FirstOf(S) == IF S = {} THEN -1 ELSE CHOOSE k \in S : \A j \in S : k <= j

\* the first loop of a getter: curi walks from 0 to the first index holding
\* the first letter of the name where the slice compared with the name
\* either is the name or runs over the end of the buffer; the index after
\* the name, -1 when the buffer ends first (Err), -2 when the slice runs
\* over (panic)
find_name(buf, h_name, h_name_alt) ==
    LET n == Len(h_name)
        curi == FirstOf({k \in 0..(Len(buf) - 1) :
                   /\ buf[k + 1] \in {h_name[1], h_name_alt[1]}
                   /\ \/ k + n > Len(buf)
                      \/ SubSeq(buf, k + 1, k + n) \in {h_name, h_name_alt}})
    IN IF curi = -1 THEN -1
       ELSE IF curi + n > Len(buf) THEN -2
       ELSE curi + n

\* while self.headers[hdl_val_begi] == b' ' { hdl_val_begi += 1 }: -2 when the
\* index leaves the buffer
skip_spaces(buf, begi) ==
    LET i == FirstOf({k \in begi..(Len(buf) - 1) : buf[k + 1] # " "})
    IN IF i = -1 THEN -2 ELSE i

\* the second loop of a getter: the index of the "\r" of the first "\r\n"
\* from curi; -2 when the index leaves the buffer or the "\r" is followed by
\* something else (panic!("bug")).  The loop that would step hdl_val_endi
\* back over spaces starts on that "\r" and so never steps.
find_crlf(buf, curi) ==
    LET i == FirstOf({k \in curi..(Len(buf) - 1) : buf[k + 1] = "CR"})
    IN IF i = -1 \/ i + 1 >= Len(buf) THEN -2
       ELSE IF buf[i + 2] = "LF" THEN i ELSE -2

\* str::trim of the value (spaces are the only whitespace the model writes)
trim(s) ==
    LET NonSp == {k \in 1..Len(s) : s[k] # " "}
    IN IF NonSp = {} THEN <<>>
       ELSE SubSeq(s, FirstOf(NonSp), CHOOSE k \in NonSp : \A j \in NonSp : j <= k)

\* str::parse::<usize>().unwrap(): the number, or -2 for the panic
RECURSIVE parse_usize(_, _)
parse_usize(s, acc) ==
    LET Digit == [d \in {"0", "1", "2", "3", "4", "5", "6", "7", "8", "9"} |->
                    CASE d = "0" -> 0 [] d = "1" -> 1 [] d = "2" -> 2 [] d = "3" -> 3
                      [] d = "4" -> 4 [] d = "5" -> 5 [] d = "6" -> 6 [] d = "7" -> 7
                      [] d = "8" -> 8 [] d = "9" -> 9]
    IN IF s = <<>> THEN acc
       ELSE IF Head(s) \in DOMAIN Digit
            THEN parse_usize(Tail(s), acc * 10 + Digit[Head(s)])
            ELSE -2

\* get_content_length, get_connection, get_upgrade, get_host, get_ws_key,
\* get_ws_ver of a request and get_content_length, get_connection,
\* get_upgrade, get_ws_accept of a response: the bytes between the name and
\* the "\r\n" of its line without the leading spaces, get_content_length
\* parsing them after a trim
get_header(headers, getter) ==
    LET names == GetterNames[getter]
        found == find_name(headers, names[1], names[2])
        begi == IF found < 0 THEN found ELSE skip_spaces(headers, found)
        endi == IF begi < 0 THEN begi ELSE find_crlf(headers, begi)
        val == SubSeq(headers, begi + 1, endi)
        num == parse_usize(trim(val), 0)
    IN IF found = -1 THEN HttpRes("Err", "HeaderNotExistContentLength")
       ELSE IF found = -2 \/ begi = -2 \/ endi = -2 THEN HttpRes("panic", <<>>)
       ELSE IF endi - begi = 0 THEN HttpRes("Err",
             "HeaderNotExistContentLength")
       ELSE IF getter # "get_content_length" THEN HttpRes("Ok", val)
       ELSE IF trim(val) = <<>> \/ num = -2 THEN HttpRes("panic", <<>>)
       ELSE HttpRes("Ok", num)

\* the index (from 1) of the first byte b of w after the pos first ones, 0
\* when there is none
IndexAfter(w, pos, b) ==
    LET i == FirstOf({k \in (pos + 1)..Len(w) : w[k] = b})
    IN IF i = -1 THEN 0 ELSE i

\* the header loop of both from_stream: bytes are read one at a time from
\* curi, and the three bytes after a "\r" at once; the index after the
\* "\r\n\r\n" that ends the headers, -2 when the stream ends first
\* (read_exact(..).unwrap() panics)
RECURSIVE headers_endi(_, _)
headers_endi(w, curi) ==
    LET cr == IndexAfter(w, curi, "CR")
    IN IF cr = 0 \/ cr + 3 > Len(w) THEN -2
       ELSE IF SubSeq(w, cr + 1, cr + 3) = <<"LF", "CR", "LF">> THEN cr + 3
       ELSE headers_endi(w, cr + 3)

\* HttpRequestParts::from_stream on a stream holding the bytes w and then
\* closed.  The request line ends at the first "\r", which "\n" must follow;
\* the method, the URI and the version are cut at its first two spaces; the
\* headers run to the end of the first "\r\n\r\n" the header loop sees, and
\* the Content-Length bytes after them are appended to the headers.
request_from_stream(w) ==
    LET cr == IndexAfter(w, 0, "CR")
        sp1 == IndexAfter(w, 0, " ")
        sp2 == IndexAfter(w, sp1, " ")
        hend == IF cr = 0 \/ cr + 1 > Len(w) THEN -2 ELSE headers_endi(w,
              cr + 1)
        newone == HttpParts(SubSeq(w, 1, sp1 - 1), SubSeq(w, sp1 + 1,
              sp2 - 1),
                            SubSeq(w, sp2 + 1, cr - 1), <<>>,
                            SubSeq(w, cr + 2, hend), <<>>)
        cl == get_header(newone.headers, "get_content_length")
    IN IF cr = 0 \/ cr + 1 > Len(w) THEN HttpRes("panic", <<>>)
       ELSE IF w[cr + 1] # "LF" THEN HttpRes("Err", "InvalidHttpData")
       ELSE IF sp1 = 0 \/ sp1 > cr \/ sp2 = 0 \/ sp2 > cr THEN HttpRes("panic", <<>>)
       ELSE IF hend = -2 THEN HttpRes("panic", <<>>)
       ELSE IF cl.kind = "panic" THEN HttpRes("panic", <<>>)
       ELSE IF cl.kind = "Err" THEN HttpRes("Ok", newone)
       ELSE IF cl.val = 0 THEN HttpRes("Err", "Buggy")
       ELSE IF hend + cl.val > Len(w) THEN HttpRes("panic", <<>>)
       ELSE HttpRes("Ok", [newone EXCEPT
                             !.headers = @ \o SubSeq(w, hend + 1,
                                   hend + cl.val)])

\* HttpResponseParts::from_stream(stream, None, 0, 0) on a stream holding the
\* bytes w and then closed: nine bytes of version, four of status code, the
\* reason phrase up to "\r\n", the headers up to "\r\n\r\n", and the
\* Content-Length bytes of body when the header is there
response_from_stream(w) ==
    LET cr == IndexAfter(w, 13, "CR")
        hend == IF cr = 0 \/ cr + 1 > Len(w) THEN -2 ELSE headers_endi(w,
              cr + 1)
        template == HttpParts(<<>>, <<>>, SubSeq(w, 1, 8),
                              SubSeq(w, 10, 13) \o SubSeq(w, 14, cr - 1),
                              SubSeq(w, cr + 2, hend), <<>>)
        cl == get_header(template.headers, "get_content_length")
    IN IF Len(w) < 9 THEN HttpRes("panic", <<>>)
       ELSE IF SubSeq(w, 1, 9) \notin {<<"H", "T", "T", "P", "/", "0", ".",
             "9", " ">>,
                                       <<"H", "T", "T", "P", "/", "1", ".",
                                             "0", " ">>,
                                       <<"H", "T", "T", "P", "/", "1", ".",
                                             "1", " ">>,
                                       <<"H", "T", "T", "P", "/", "2", ".",
                                             "0", " ">>,
                                       <<"H", "T", "T", "P", "/", "3", ".",
                                             "0", " ">>}
            THEN HttpRes("Err", "InvalidHttpVersion")
       ELSE IF Len(w) < 13 \/ cr = 0 \/ cr + 1 > Len(w) THEN HttpRes("panic", <<>>)
       ELSE IF w[cr + 1] # "LF" THEN HttpRes("Err", "InvalidHttpData")
       ELSE IF hend = -2 \/ cl.kind = "panic" THEN HttpRes("panic", <<>>)
       ELSE IF cl.kind = "Err" THEN HttpRes("Ok", template)
       ELSE IF hend + cl.val > Len(w) THEN HttpRes("panic", <<>>)
       ELSE HttpRes("Ok", [template EXCEPT
                             !.msgbody = SubSeq(w, hend + 1, hend + cl.val)])

\* the request WebSocketHandshaker::try_as_client sends
handshake_request(uri, host) ==
    add_header(add_header(add_header(add_header(add_header(
        request_from_scratch(<<"G", "E", "T">>, uri),
        "connection", <<"U", "p", "g", "r", "a", "d", "e">>),
        "upgrade", <<"w", "e", "b", "s", "o", "c", "k", "e", "t">>),
        "host", host),
        "ws_key", <<"a", "G", "9", "3", "L", "X", "R", "v", "L", "W", "h",
              "h", "b", "m", "R", "z", "a", "G", "F", "r", "Z", "Q", "=",
                    "=">>),
        "ws_ver", <<"1", "3">>)

\* try_as_client from the response on: it unwraps what from_stream returns,
\* compares the status, then looks the accept header up and compares it
try_as_client(w) ==
    LET resp == response_from_stream(w)
        acc == get_header(resp.val.headers, "get_ws_accept")
    IN IF resp.kind # "Ok" THEN "panic"
       ELSE IF resp.val.status \notin {<<"1", "0", "1", " ", "S", "w", "i",
             "t", "c", "h", "i", "n", "g", " ", "P", "r", "o", "t", "o", "c",
                   "o", "l", "s">>,
                                       <<"1", "0", "1", " ", "W", "e", "b",
                                             "S", "o", "c", "k", "e", "t",
                                                   " ", "P", "r", "o", "t",
                                                         "o", "c", "o", "l",
                                                               " ", "H", "a",
                                                                     "n",
                                                                           "d", "s", "h", "a", "k", "e">>}
            THEN "HandshakeFail1"
       ELSE IF acc.kind = "panic" THEN "panic"
       ELSE IF acc.kind = "Err" THEN "HandshakeFail2"
       ELSE IF acc.val # <<"G", "s", "C", "Y", "k", "8", "6", "T", "c", "Y",
             "3", "D", "9", "u", "B", "D", "L", "Z", "u", "G", "5", "F", "m",
                   "e", "V", "3", "Y", "=">>
            THEN "HandshakeFail1"
       ELSE "Ok"

\* the most spaces a peer writes before and after a header value
MaxLws == 1

\* n spaces
Spaces(n) == [k \in 1..n |-> " "]

\* the header names written in small letters
LowerNames ==
    [get_content_length |-> <<"c", "o", "n", "t", "e", "n", "t", "-", "l",
          "e", "n", "g", "t", "h", ":">>,
     get_connection |-> <<"c", "o", "n", "n", "e", "c", "t", "i", "o", "n",
           ":">>,
     get_upgrade |-> <<"u", "p", "g", "r", "a", "d", "e", ":">>,
     get_host |-> <<"h", "o", "s", "t", ":">>,
     get_ws_key |-> <<"s", "e", "c", "-", "w", "e", "b", "s", "o", "c", "k",
           "e", "t", "-", "k", "e", "y", ":">>,
     get_ws_ver |-> <<"s", "e", "c", "-", "w", "e", "b", "s", "o", "c", "k",
           "e", "t", "-", "v", "e", "r", "s", "i", "o", "n", ":">>,
     get_ws_accept |-> <<"s", "e", "c", "-", "w", "e", "b", "s", "o", "c",
           "k", "e", "t", "-", "a", "c", "c", "e", "p", "t", ":">>]

\* the values a peer sends
PeerValues ==
    [get_content_length |-> {<<"2">>},
     get_connection |-> {<<"U", "p", "g", "r", "a", "d", "e">>},
     get_upgrade |-> {<<"w", "e", "b", "s", "o", "c", "k", "e", "t">>},
     get_host |-> {<<"h", ":", "1">>},
     get_ws_key |-> {<<"a", "G", "9", "3", "L", "X", "R", "v", "L", "W", "h",
           "h", "b", "m", "R", "z", "a", "G", "F", "r", "Z", "Q", "=", "=">>},
     get_ws_ver |-> {<<"1", "3">>},
     get_ws_accept |-> {<<"G", "s", "C", "Y", "k", "8", "6", "T", "c", "Y",
           "3", "D", "9", "u", "B", "D", "L", "Z", "u", "G", "5", "F", "m",
                 "e", "V", "3", "Y", "=">>,
                        <<"A", "s", "C", "Y", "k", "8", "6", "T", "c", "Y",
                              "3", "D", "9", "u", "B", "D", "L", "Z", "u",
                                    "G", "5", "F", "m", "e", "V", "3", "Y",
                                          "=">>}]

\* a header line as a peer may write it: the name as the setters write it
\* ("canon"), in small letters ("lower") or as the getter's h_name_alt
\* ("alt"), and spaces around the value
PeerLine(getter, cap, lead, trail, val) ==
    [getter |-> getter, cap |-> cap, lead |-> lead, trail |-> trail,
          val |-> val,
     status |-> <<>>]
NoPeerLine == PeerLine("", "", 0, 0, <<>>)
PeerLines(getters) ==
    UNION {{PeerLine(g, cap, lead, trail, val) :
              cap \in {"canon", "lower", "alt"},
              lead \in 0..MaxLws, trail \in 0..MaxLws,
                    val \in PeerValues[g]} :
           g \in getters}

\* the bytes of the line
peer_line_bytes(l) ==
    IF l = NoPeerLine THEN <<>>
    ELSE (CASE l.cap = "canon" -> GetterNames[l.getter][1]
            [] l.cap = "alt" -> GetterNames[l.getter][2]
            [] l.cap = "lower" -> LowerNames[l.getter])
         \o Spaces(l.lead) \o l.val \o Spaces(l.trail) \o CRLF

RequestGetters == {"get_content_length", "get_connection", "get_upgrade",
                   "get_host", "get_ws_key", "get_ws_ver"}
ResponseGetters == {"get_content_length", "get_connection", "get_upgrade",
                    "get_ws_accept"}

\* the header setters a caller chains, in order
HeaderCalls ==
    {<<>>,
     <<<<"host", <<"h", ":", "1">>>>>>,
     <<<<"ua", <<"w", "d", "a", "/", "1">>>>, <<"host", <<"h", ":", "1">>>>>>}

RECURSIVE add_headers(_, _)
add_headers(parts, calls) ==
    IF calls = <<>> THEN parts
    ELSE add_headers(add_header(parts, Head(calls)[1], Head(calls)[2]),
          Tail(calls))

\* the bodies given to msgbody_from_slice
Bodies == {<<>>, <<"{", "}">>, <<"{", "\"", "a", "\"", ":", " ", "1", "}">>}

\* a caller builds a request: from_scratch, http1p1, get / post / delete,
\* header setters, and msgbody_from_slice or not
HttpCompose ==
    /\ h_pc = "idle"
    /\ \E method \in {<<"G", "E", "T">>, <<"P", "O", "S", "T">>, <<"D", "E",
          "L", "E", "T", "E">>},
          calls \in HeaderCalls, with_body \in BOOLEAN, b \in Bodies :
          LET req == add_headers(request_from_scratch(method, <<"/", "s">>),
                calls)
          IN h_req' = IF with_body THEN msgbody_from_slice(req, b) ELSE req
    /\ h_pc' = "composed"
    /\ UNCHANGED <<h_peer, h_wire, h_dec, h_get, hs_res>>
    /\ UNCHANGED <<clientVars, initVars, dropVars, cmdVars, streamVars,
          wsVars, capVars>>

\* HttpRequestParts::send_through
HttpSendThrough ==
    /\ h_pc = "composed"
    /\ h_wire' = to_vec(h_req)
    /\ h_pc' = "sent"
    /\ UNCHANGED <<h_req, h_peer, h_dec, h_get, hs_res>>
    /\ UNCHANGED <<clientVars, initVars, dropVars, cmdVars, streamVars,
          wsVars, capVars>>

\* a peer writes a request of its own with one of the headers the getters
\* look for, and the body its Content-Length announces
HttpPeerSend ==
    /\ h_pc = "idle"
    /\ \E l \in PeerLines(RequestGetters), before \in {<<>>, hdrline(<<"A",
          "c", "c", "e", "p", "t">>, <<"*", "/", "*">>)} :
          /\ h_peer' = l
          /\ h_wire' = <<"G", "E", "T", " ", "/", "s", " ", "H", "T", "T",
                "P", "/", "1", ".", "1">> \o CRLF \o before
                       \o peer_line_bytes(l) \o CRLF
                       \o (IF l.getter = "get_content_length" THEN <<"{",
                             "}">> ELSE <<>>)
    /\ h_pc' = "sent"
    /\ UNCHANGED <<h_req, h_dec, h_get, hs_res>>
    /\ UNCHANGED <<clientVars, initVars, dropVars, cmdVars, streamVars,
          wsVars, capVars>>

\* HttpRequestParts::from_stream at the other end
HttpFromStream ==
    /\ h_pc = "sent"
    /\ h_dec' = request_from_stream(h_wire)
    /\ h_pc' = "decoded"
    /\ UNCHANGED <<h_req, h_peer, h_wire, h_get, hs_res>>
    /\ UNCHANGED <<clientVars, initVars, dropVars, cmdVars, streamVars,
          wsVars, capVars>>

\* a getter called on the parts from_stream built
HttpLookup ==
    /\ h_pc \in {"decoded", "hs_done"}
    /\ h_dec.kind = "Ok"
    /\ \E g \in IF h_pc = "decoded" THEN RequestGetters ELSE ResponseGetters :
          h_get' = [getter |-> g, res |-> get_header(h_dec.val.headers, g)]
    /\ h_pc' = "looked"
    /\ UNCHANGED <<h_req, h_peer, h_wire, h_dec, hs_res>>
    /\ UNCHANGED <<clientVars, initVars, dropVars, cmdVars, streamVars,
          wsVars, capVars>>

\* try_as_client up to req.send_through(stream)
HsSend ==
    /\ h_pc = "idle"
    /\ h_req' = handshake_request(<<"/", "s", "e", "s", "s", "i", "o", "n",
          "/", "s", "1">>, <<"h", ":", "1">>)
    /\ h_wire' = to_vec(h_req')
    /\ h_pc' = "hs_sent"
    /\ UNCHANGED <<h_peer, h_dec, h_get, hs_res>>
    /\ UNCHANGED <<clientVars, initVars, dropVars, cmdVars, streamVars,
          wsVars, capVars>>

\* the statuses a server answers the handshake with
HsStatuses ==
    {<<"1", "0", "1", " ", "S", "w", "i", "t", "c", "h", "i", "n", "g", " ",
          "P", "r", "o", "t", "o", "c", "o", "l", "s">>,
     <<"1", "0", "1", " ", "W", "e", "b", "S", "o", "c", "k", "e", "t", " ",
           "P", "r", "o", "t", "o", "c", "o", "l", " ", "H", "a", "n", "d",
                 "s", "h", "a", "k", "e">>,
     <<"1", "0", "1", " ", "S", "w", "i", "t", "c", "h", "i", "n", "g">>,
     <<"4", "0", "0", " ", "B", "a", "d", " ", "R", "e", "q", "u", "e", "s",
           "t">>}

\* the server reads the request and answers: a status line, Upgrade and
\* Connection, an accept line or none, and a last header or none
HsRespond ==
    /\ h_pc = "hs_sent"
    /\ request_from_stream(h_wire).kind = "Ok"
    /\ \E status \in HsStatuses,
          l \in PeerLines({"get_ws_accept"}) \cup {NoPeerLine},
          last \in {<<>>, hdrline(<<"S", "e", "r", "v", "e", "r">>,
                <<"x">>)} :
          /\ h_peer' = [l EXCEPT !.status = status]
          /\ h_wire' = <<"H", "T", "T", "P", "/", "1", ".", "1",
                " ">> \o status \o CRLF
                       \o hdrline(SetterNames.upgrade, <<"w", "e", "b", "s",
                             "o", "c", "k", "e", "t">>)
                       \o hdrline(SetterNames.connection, <<"U", "p", "g",
                             "r", "a", "d", "e">>)
                       \o peer_line_bytes(l) \o last \o CRLF
    /\ h_pc' = "hs_answered"
    /\ UNCHANGED <<h_req, h_dec, h_get, hs_res>>
    /\ UNCHANGED <<clientVars, initVars, dropVars, cmdVars, streamVars,
          wsVars, capVars>>

\* the server closes the stream without an answer
HsClose ==
    /\ h_pc = "hs_sent"
    /\ h_wire' = <<>>
    /\ h_peer' = NoPeerLine
    /\ h_pc' = "hs_answered"
    /\ UNCHANGED <<h_req, h_dec, h_get, hs_res>>
    /\ UNCHANGED <<clientVars, initVars, dropVars, cmdVars, streamVars,
          wsVars, capVars>>

\* try_as_client from HttpResponseParts::from_stream on
HsCheck ==
    /\ h_pc = "hs_answered"
    /\ hs_res' = try_as_client(h_wire)
    /\ h_dec' = response_from_stream(h_wire)
    /\ h_pc' = "hs_done"
    /\ UNCHANGED <<h_req, h_peer, h_wire, h_get>>
    /\ UNCHANGED <<clientVars, initVars, dropVars, cmdVars, streamVars,
          wsVars, capVars>>

HttpInit ==
    /\ rstream = "None"
    /\ ws_stream = "None"
    /\ ssids = <<>>
    /\ InitNotRunning
    /\ DropNotRunning
    /\ CmdNotRunning
    /\ StreamNotRunning
    /\ WsNotRunning
    /\ CapNotRunning
    /\ h_pc = "idle"
    /\ h_req = <<>>
    /\ h_peer = NoPeerLine
    /\ h_wire = <<>>
    /\ h_dec = HttpRes("none", <<>>)
    /\ h_get = [getter |-> "", res |-> HttpRes("none", <<>>)]
    /\ hs_res = ""

HttpNext ==
    \/ HttpCompose
    \/ HttpSendThrough
    \/ HttpPeerSend
    \/ HttpFromStream
    \/ HttpLookup
    \/ HsSend
    \/ HsRespond
    \/ HsClose
    \/ HsCheck

SpecHttp == HttpInit /\ [][HttpNext]_vars

(***************************************************************************)
(* Serialization and deserialization of capabilities (gec.rs, chr.rs,      *)
(* comm.rs).  A JSON value is a type and a content; an object is the       *)
(* sequence of its <<key, value>> entries in the order they are written; a *)
(* number is written by its decimal digits, and a prefs value is the        *)
(* sequence of its characters.                                              *)
(***************************************************************************)
JSON(t, v) == [t |-> t, v |-> v]

\* if <cond> { state.serialize_field(key, val)?; }
serialize_field(cond, key, val) == IF cond THEN <<<<key, val>>>> ELSE <<>>

\* Serialize for Proxy
serialize_proxy(p) ==
    JSON("object",
         serialize_field(p.proxy_type # "", "proxyType", JSON("string", p.proxy_type))
      \o serialize_field(p.proxy_autoconfig_url # "", "proxyAutoconfigUrl",
                         JSON("string", p.proxy_autoconfig_url))
      \o serialize_field(p.ftp_proxy # "", "ftpProxy", JSON("string", p.ftp_proxy))
      \o serialize_field(p.http_proxy # "", "httpProxy", JSON("string", p.http_proxy))
      \o serialize_field(p.no_proxy # <<>>, "noProxy", JSON("array", p.no_proxy))
      \o serialize_field(p.ssl_proxy # "", "sslProxy", JSON("string", p.ssl_proxy))
      \o serialize_field(p.socks_proxy # "", "socksProxy", JSON("string", p.socks_proxy))
      \o serialize_field(p.socks_version # 0, "socksVersion",
                         JSON("number", to_string(p.socks_version))))

\* #[derive(Serialize)] for Timeouts
serialize_timeouts(t) ==
    JSON("object", <<<<"script", JSON("number", to_string(t.script))>>,
                     <<"pageLoad", JSON("number", to_string(t.page_load))>>,
                     <<"implicit", JSON("number", to_string(t.implicit))>>>>)

\* str::parse::<u32>(): Some(the digits of the number) when the value is an
\* optional "+" and decimal digits spelling at most 4294967295, else None
parse_u32(value) ==
    LET body == IF value # <<>> /\ Head(value) = "+" THEN Tail(value) ELSE value
        nonz == FirstOf({k \in 1..Len(body) : body[k] # "0"})
        digits == IF nonz = -1 THEN <<"0">> ELSE SubSeq(body, nonz, Len(body))
    IN IF body = <<>> \/ \E k \in 1..Len(body) : parse_usize(<<body[k]>>, 0) = -2
       THEN None
       ELSE IF Len(digits) < 10 THEN Some(digits)
       ELSE IF Len(digits) > 10 THEN None
       ELSE LET hi == parse_usize(SubSeq(digits, 1, 5), 0)
                lo == parse_usize(SubSeq(digits, 6, 10), 0)
            IN IF hi < 42949 \/ (hi = 42949 /\ lo <= 67295)
               THEN Some(digits) ELSE None

\* Serialize for VarValTypeMap: the entries in the order of the BTreeMap
serialize_prefs(map) ==
    JSON("object",
         [k \in 1..Len(map) |->
            LET value == map[k][2] IN
            <<map[k][1],
              IF value = <<"t", "r", "u", "e">> THEN JSON("bool", TRUE)
              ELSE IF value = <<"f", "a", "l", "s", "e">> THEN JSON("bool", FALSE)
              ELSE IF parse_u32(value) # None
                   THEN JSON("number", parse_u32(value)[1])
                   ELSE JSON("string", value)>>])

\* FirefoxCapaGetter::is_insig / ChromiumCapaGetter::is_insig
is_insig(vendor, c) ==
    \A k \in 1..Len(ExtFields(vendor)) : get_field(c, ExtFields(vendor)[k]) = None

\* Serialize for FirefoxSesExtCap / ChromiumSesExtCap
serialize_ext(vendor, ext) ==
    LET field(name, key, t) ==
            serialize_field(ext[name] # None, key,
                            IF t = "prefs" THEN serialize_prefs(ext[name][1])
                            ELSE JSON(t, ext[name][1]))
    IN JSON("object",
            IF vendor = "gecko"
            THEN field("args", "args", "array") \o field("binary", "binary", "string")
                 \o field("profile", "profile", "string")
                 \o field("prefs", "prefs", "prefs")
            ELSE field("args", "args", "array") \o field("binary", "binary", "string")
                 \o field("extensions", "extensions", "array")
                 \o field("prefs", "prefs", "prefs")
                 \o field("detach", "detach", "bool")
                 \o field("debugger_address", "debuggerAddress", "string")
                 \o field("exclude_switches", "excludeSwitches", "array")
                 \o field("minidump_path", "minidumpPath", "string")
                 \o field("window_types", "windowTypes", "array"))

\* a capability serializer writing the vendor block whatever it holds
serialize_capa_always_ext(vendor, c) ==
    JSON("object",
         <<<<IF vendor = "gecko" THEN "moz:firefoxOptions" ELSE "goog:chromeOptions",
             serialize_ext(vendor, c.ext)>>>>)

\* Serialize for FirefoxCapa / ChromiumCapa
serialize_capa(vendor, c) ==
    LET plain(name, key, t) ==
            serialize_field(c[name] # None, key, JSON(t, c[name][1]))
        proxy == serialize_field(c.proxy # None, "proxy", serialize_proxy(c.proxy[1]))
        timeouts == serialize_field(c.timeouts # None, "timeouts",
                                    serialize_timeouts(c.timeouts[1]))
    IN JSON("object",
            plain("browser_name", "browserName", "string")
         \o plain("browser_version", "browserVersion", "string")
         \o plain("platform_name", "platformName", "string")
         \o plain("accept_insecure_certs", "acceptInsecureCerts", "bool")
         \o plain("strict_file_interactability", "strictFileInteractability", "bool")
         \o (IF vendor = "gecko" THEN proxy \o timeouts ELSE timeouts \o proxy)
         \o serialize_field(c.wsurl # None, "webSocketUrl", JSON("bool", TRUE))
         \o serialize_field(~is_insig(vendor, c),
                            IF vendor = "gecko" THEN "moz:firefoxOptions"
                            ELSE "goog:chromeOptions",
                            serialize_ext(vendor, c.ext)))

\* FIELD_JSON_NAMES of the visitors: the keys they know
KnownKeys ==
    [proxy |-> <<"proxyType", "proxyAutoconfigUrl", "ftpProxy", "httpProxy",
                 "noProxy", "sslProxy", "socksProxy", "socksVersion">>,
     timeouts |-> <<"script", "pageLoad", "implicit">>,
     sessres |-> <<"capabilities", "sessionId">>,
     capa |-> <<"browserName", "browserVersion", "platformName",
                "acceptInsecureCerts", "pageLoadStrategy", "proxy",
                "setWindowRect", "timeouts", "strictFileInteractability",
                "unhandledPromptBehavior", "moz:accessibilityChecks",
                "moz:buildID", "moz:geckodriverVersion", "moz:headless",
                "moz:processID", "moz:profile", "moz:shutdownTimeout",
                "moz:useNonSpecCompliantPointerOrigin", "moz:webdriverClick",
                "moz:windowless", "webSocketUrl">>]

\* the keys whose absence is a missing_field error
RequiredKeys ==
    [proxy |-> {}, timeouts |-> {}, sessres |-> {"capabilities", "sessionId"},
     capa |-> {"browserName", "browserVersion", "platformName",
               "acceptInsecureCerts", "pageLoadStrategy", "setWindowRect",
               "timeouts", "strictFileInteractability",
               "unhandledPromptBehavior", "moz:profile"}]

\* the key whose Option the arm of a key matches on before it reads the
\* value: the key itself, but in the Proxy visitor the arms of httpProxy,
\* sslProxy, socksProxy and socksVersion match on npxy, the Option of noProxy
matched_option(kind, key) ==
    IF kind = "proxy" /\ key \in {"httpProxy", "sslProxy", "socksProxy", "socksVersion"}
    THEN "noProxy" ELSE key

\* visit_map of the StructVisitor of Proxy, Timeouts, CommSessResultVal and
\* FirefoxCapa over an object with these keys, seen being the keys whose
\* Option is Some.  An arm that finds its Option taken sets is_dup and leaves
\* the value unread, which makes the map.next_key()? that follows return a
\* syntax error; unknown keys are skipped with their values.
RECURSIVE visit_map(_, _, _)
visit_map(kind, keys, seen) ==
    IF keys = <<>>
    THEN IF RequiredKeys[kind] \subseteq seen THEN "Ok" ELSE "Err"
    ELSE IF Head(keys) \notin Range(KnownKeys[kind])
         THEN visit_map(kind, Tail(keys), seen)
         ELSE IF matched_option(kind, Head(keys)) \in seen THEN "Err"
         ELSE visit_map(kind, Tail(keys), seen \cup {Head(keys)})

\* how many keys a peer adds to a well-formed object
MaxExtraKeys == 1

\* the capabilities serialized: those of the requests, and prefs of every type
SerCapas(vendor) ==
    {c \in Capas(vendor) : c.ext.prefs = None}
    \cup {set_field(c, Fld("ext", "prefs"), <<<<"a.pref", v>>>>) :
            c \in {CapaDefault(vendor),
                   set_field(CapaDefault(vendor), Fld("plain", "browser_name"), "b")},
            v \in {<<"t", "r", "u", "e">>, <<"f", "a", "l", "s", "e">>,
                   <<"T", "r", "u", "e">>, <<"1", "6">>, <<"0", "0", "7">>,
                   <<"+", "5">>, <<"-", "1">>, <<"1", ".", "5">>, <<>>,
                   <<"4", "2", "9", "4", "9", "6", "7", "2", "9", "5">>,
                   <<"4", "2", "9", "4", "9", "6", "7", "2", "9", "6">>,
                   <<"A", " ", "R", "e", "a", "l", " ", "H", "u", "m", "a", "n">>}}
    \cup {set_field(set_field(CapaDefault(vendor), Fld("ext", "binary"), "/b"),
                    Fld("ext", "prefs"),
                    <<<<"a.pref", <<"1", "6">>>>, <<"b.pref", <<"x">>>>>>)}

\* the objects deserialized: a well-formed one with up to MaxExtraKeys keys,
\* known or not, added in front or at the end
RECURSIVE KeySeqs(_, _)
KeySeqs(kind, n) ==
    IF n = 0
    THEN IF kind = "proxy"
         THEN {<<>>, <<"httpProxy">>, <<"noProxy", "httpProxy">>, KnownKeys.proxy}
         ELSE {SelectSeq(KnownKeys[kind], LAMBDA k : k \in RequiredKeys[kind]),
               KnownKeys[kind]}
    ELSE LET S == KeySeqs(kind, n - 1)
         IN S \cup UNION {{SubSeq(s, 1, p) \o <<k>> \o SubSeq(s, p + 1, Len(s)) :
                               p \in {0, Len(s)},
                               k \in Range(KnownKeys[kind]) \cup {"unknown"}} :
                             s \in S}

\* what is handed to serde_json: a capability to write, or an object to read;
\* and a Firefox capability with the profile to set on it
SerInputs ==
    UNION {{[op |-> "serialize", vendor |-> vendor, capa |-> c] :
              c \in SerCapas(vendor)} : vendor \in {"gecko", "chrom"}}
    \cup UNION {{[op |-> "deserialize", kind |-> kind, keys |-> keys] :
                   keys \in KeySeqs(kind, MaxExtraKeys)} :
                 kind \in DOMAIN KnownKeys}
    \cup {[op |-> "set_profile", capa |-> c, arg |-> a] :
            c \in SerCapas("gecko"), a \in {"/tmp/profile", "/usr/bin/browser"}}

\* serde_json::to_string of a capability
SerSerialize ==
    /\ ser_in.op = "serialize"
    /\ ser_out = <<>>
    /\ ser_out' = Some(serialize_capa(ser_in.vendor, ser_in.capa))
    /\ UNCHANGED <<requ_vendor, always_match, first_match, requ_calls, requ_op,
                   requ_other, requ_before, ser_in>>
    /\ UNCHANGED <<clientVars, initVars, dropVars, cmdVars, streamVars, wsVars,
                   httpVars>>

\* serde_json::from_slice of a Proxy, a Timeouts, a CommSessResultVal or a
\* FirefoxCapa
SerDeserialize ==
    /\ ser_in.op = "deserialize"
    /\ ser_out = <<>>
    /\ ser_out' = Some(visit_map(ser_in.kind, ser_in.keys, {}))
    /\ UNCHANGED <<requ_vendor, always_match, first_match, requ_calls, requ_op,
                   requ_other, requ_before, ser_in>>
    /\ UNCHANGED <<clientVars, initVars, dropVars, cmdVars, streamVars, wsVars,
                   httpVars>>

\* FirefoxCapa::set_profile / set_profile_take
SerSetProfile ==
    /\ ser_in.op = "set_profile"
    /\ ser_out = <<>>
    /\ ser_out' = Some(set_field(ser_in.capa, Fld("ext", "profile"), ser_in.arg))
    /\ UNCHANGED <<requ_vendor, always_match, first_match, requ_calls, requ_op,
                   requ_other, requ_before, ser_in>>
    /\ UNCHANGED <<clientVars, initVars, dropVars, cmdVars, streamVars, wsVars,
                   httpVars>>

SerInit ==
    /\ rstream = "None"
    /\ ws_stream = "None"
    /\ ssids = <<>>
    /\ InitNotRunning
    /\ DropNotRunning
    /\ CmdNotRunning
    /\ StreamNotRunning
    /\ WsNotRunning
    /\ requ_vendor = "none"
    /\ always_match = <<>>
    /\ first_match = <<>>
    /\ requ_calls = 0
    /\ requ_op = ""
    /\ requ_other = <<>>
    /\ requ_before = <<>>
    /\ ser_in \in SerInputs
    /\ ser_out = <<>>
    /\ HttpNotRunning

SerNext ==
    \/ SerSerialize
    \/ SerDeserialize
    \/ SerSetProfile

SpecSerde == SerInit /\ [][SerNext]_vars

(***************************************************************************)
(* Claims about init.                                                       *)
(***************************************************************************)
BusyStatusResp == Resp(Status200, StatusBody(FALSE, "Session already started"))
BusyCreateResp ==
    Resp(Status404, ErrorBody("session not created", "Session is already started"))
\* a response to GET /status that does not say ready
NonReadyResp(resp) ==
    /\ resp \in Responses
    /\ ~(resp.status = Status200 /\ resp.body.shape = "status" /\ resp.body.ready)
\* a response to POST /session that carries no session
NoSessionResp(resp) ==
    /\ resp \in Responses
    /\ ~(resp.status = Status200 /\ resp.body.shape = "session")

\* C5: in W3C mode the session list holds at most one session id at every
\* point of init (retries included) and of the commands that follow, and
\* exactly one once init has returned a client.
C5_AtMostOneSession ==
    /\ Len(ssids) <= 1
    /\ init_res = Ok => Len(ssids) = 1
C5_Witness ==
    /\ init_res = Ok
    /\ retried
    /\ Len(ssids) = 1
    /\ cmd_res # NoRes

\* C6: during init a status response with ready = false and the message
\* "Session already started" is DriverNotReadyBusySession and the poll goes
\* round again while budget remains; after any other non-ready response init
\* sends no further GET /status.
C6_StatusRetry ==
    [][/\ (ipc = "rdy_loop" /\ sent' = GetStatus /\ last_resp' = BusyStatusResp)
            => /\ rdy_res' = DriverNotReadyBusySession
               /\ ipc' = "rdy_loop"
               /\ already_wait' = already_wait + wait_each_round
       /\ (ipc = "rdy_loop" /\ rdy_res = DriverNotReadyBusySession
              /\ already_wait < ready_timeout_in_micros)
            => sent' = GetStatus
       /\ (ipc = "rdy_loop" /\ sent' = GetStatus /\ NonReadyResp(last_resp')
              /\ last_resp' # BusyStatusResp)
            => ipc' = "sess_loop"
       /\ ipc = "sess_loop" => sent' # GetStatus
      ]_vars
C6_Witness ==
    /\ ipc = "rdy_loop"
    /\ sent = GetStatus
    /\ last_resp = BusyStatusResp
    /\ already_wait >= 2 * wait_each_round
    /\ already_wait < ready_timeout_in_micros

\* C7: during init a session-creation failure with error "session not
\* created" and message "Session is already started" is BusyCreateSession and
\* POST /session is sent again while budget remains; after any other failure
\* of session creation no further POST /session is sent.
C7_SessionRetry ==
    [][/\ (ipc = "sess_loop" /\ sent' = PostSession /\ last_resp' = BusyCreateResp)
            => /\ sess_res' = BusyCreateSession
               /\ ipc' = "sess_loop"
               /\ already_wait' = already_wait + wait_each_round
               /\ ssids' = ssids
       /\ (ipc = "sess_loop" /\ sess_res = BusyCreateSession
              /\ already_wait < ready_timeout_in_micros)
            => sent' = PostSession
       /\ (ipc = "sess_loop" /\ sent' = PostSession /\ NoSessionResp(last_resp')
              /\ last_resp' # BusyCreateResp)
            => /\ ipc' = "returned"
               /\ init_res' # Ok
       /\ ipc \in {"returned", "panicked"} => sent' # PostSession
      ]_vars
C7_Witness ==
    /\ ipc = "sess_loop"
    /\ sent = PostSession
    /\ last_resp = BusyCreateResp
    /\ already_wait >= 2 * wait_each_round
    /\ already_wait < ready_timeout_in_micros

\* C8, as claimed: once the connection is established, every one of the five
\* functions yields WebDriverNotReady unless a session was created, and
\* returns a client only when a session was created.
C8_YieldsNotReady ==
    (ipc = "returned" /\ rstream = "Some")
        => /\ init_res = Ok <=> (sess_res = Ok /\ Len(ssids) = 1)
           /\ init_res # Ok => init_res = WebDriverNotReady

\* the errors that break a loop and that init_singl_ff / init_singl_ch record
RecordedErrs ==
    (IF rdy_res \in {NoRes, Ok, DriverNotReadyBusySession} THEN {} ELSE {rdy_res})
    \cup (IF sess_res \in {NoRes, Ok, BusyCreateSession} THEN {} ELSE {sess_res})

\* C8, amended: whenever one of the five functions returns after the
\* connection was established, it returns a client exactly when a session was
\* created; otherwise init, init_singl and bidi::init yield WebDriverNotReady,
\* and init_singl_ff and init_singl_ch yield an error that broke the status or
\* the session loop when there is one and WebDriverNotReady when there is none.
C8_InitYield ==
    (ipc = "returned" /\ rstream = "Some")
        => /\ init_res = Ok <=> (sess_res = Ok /\ Len(ssids) = 1)
           /\ init_res # Ok =>
                 IF variant \in {"init_singl_ff", "init_singl_ch"}
                    /\ RecordedErrs # {}
                 THEN init_res \in RecordedErrs
                 ELSE init_res = WebDriverNotReady
C8_Witness ==
    /\ ipc = "returned"
    /\ rstream = "Some"
    /\ variant = "init_singl_ff"
    /\ retried
    /\ init_res = BadDrvCmd("javascript error", "123456789")

(***************************************************************************)
(* Claims about Drop.                                                       *)
(***************************************************************************)
\* the requests written by drop that delete the given session id
DeletesOf(ssid) ==
    {k \in 1..Len(drop_log) : drop_log[k].req = DeleteSession(ssid)}

C4_DeleteErrorsSwallowed ==
    drop_failed
        => /\ dpc # "panicked"
           /\ dpc = "dropped" => drop_i = Len(drop_ssids)

(***************************************************************************)
(* Claims about the command surface.                                        *)
(***************************************************************************)
\* C1: at most one command is in flight on a client: at most one thread is
\* between writing its request and having read its response, and at most one
\* request on the stream has not had its response read.
C1_OneCommandInFlight ==
    /\ Cardinality({t \in Threads : tpc[t] = "sent"}) <= 1
    /\ Len(wire_reqs) - Len(consumed) <= 1
C1_Witness ==
    \E t \in Threads, u \in Threads :
       /\ t # u
       /\ tpc[t] = "sent"
       /\ tpc[u] = "lock"
       /\ Len(wire_reqs) = Len(consumed) + 1

\* C2: the k-th response read from the stream is the driver's answer to the
\* k-th request written, and it is read by the call that wrote that request.
C2_ResponsesInRequestOrder ==
    \A k \in 1..Len(consumed) :
       /\ consumed[k].k = k
       /\ consumed[k].by = wire_reqs[k].by
       /\ consumed[k].call = wire_reqs[k].call
C2_Witness ==
    /\ Len(consumed) = 2
    /\ consumed[1].by # consumed[2].by
    /\ \E t \in Threads : tpc[t] = "idle" /\ tres[t] # NoRes

\* C9: a command never writes more than one request per call, and a call
\* that passed the checks and returned has written exactly one request and
\* returned what the response it read amounts to, a transient error included.
C9_OneRequestPerCall ==
    /\ Len(wire_reqs) <= ncalls
    /\ \A t \in Threads :
          /\ tsent[t] <= 1
          /\ (/\ tpc[t] = "idle"
              /\ tcall[t] > 0
              /\ command_precheck(tcmd[t], rstream, ssids) = Ok)
                => /\ tsent[t] = 1
                   /\ tres[t] = command_result(tcmd[t], tresp[t])
C9_Witness ==
    \E t \in Threads, u \in Threads :
       /\ tpc[t] = "idle"
       /\ tsent[t] = 1
       /\ tres[t] = BusyCreateSession
       /\ tpc[u] = "idle"
       /\ tsent[u] = 1
       /\ tres[u] = DriverNotReadyBusySession

\* C23, as claimed: a command that read a response whose status is not 200
\* and whose body is an error body returns BusyCreateSession when the body's
\* (error, message) is ("session not created", "Session is already started"),
\* and BadDrvCmd(error, message) with the body's strings for every other one.
C23_ErrorBodyMapped ==
    \A t \in Threads :
       (/\ tpc[t] = "idle"
        /\ tsent[t] = 1
        /\ tcmd[t] # "is_ready"
        /\ tresp[t].status[1] # "200 "
        /\ tresp[t].body.shape = "error")
          => tres[t] =
                IF /\ tresp[t].body.error = "session not created"
                   /\ tresp[t].body.message = "Session is already started"
                THEN BusyCreateSession
                ELSE BadDrvCmd(tresp[t].body.error, tresp[t].body.message)

\* C24, as claimed: a command called on a client without a stream returns
\* WebDriverRemoteConnectionFailed, a command called on a client with a stream
\* and an empty session list returns Buggy, and neither writes a request.
C24_EveryCommandPrechecked ==
    \A t \in Threads :
       (tpc[t] = "idle" /\ tcall[t] > 0)
          => /\ rstream = "None"
                  => tres[t] = WebDriverRemoteConnectionFailed /\ wire_reqs = <<>>
             /\ (rstream = "Some" /\ ssids = <<>>)
                  => tres[t] = Buggy /\ wire_reqs = <<>>

\* C24, amended: a command called on a client without a stream returns
\* WebDriverRemoteConnectionFailed and nothing is written; a command other
\* than is_ready called on a client with a stream and an empty session list
\* returns Buggy without writing a request, while is_ready writes its
\* GET /status and returns what the answer amounts to.
C24_CommandPrechecked ==
    \A t \in Threads :
       (tpc[t] = "idle" /\ tcall[t] > 0)
          => /\ rstream = "None"
                  => tres[t] = WebDriverRemoteConnectionFailed /\ wire_reqs = <<>>
             /\ (rstream = "Some" /\ ssids = <<>>)
                  => IF tcmd[t] = "is_ready"
                     THEN /\ tsent[t] = 1
                          /\ tres[t] = is_ready(tresp[t])
                     ELSE /\ tres[t] = Buggy
                          /\ tsent[t] = 0
                          /\ \A k \in 1..Len(wire_reqs) : wire_reqs[k].req = GetStatus
C24_Witness ==
    \E t \in Threads, u \in Threads :
       /\ rstream = "Some"
       /\ ssids = <<>>
       /\ tpc[t] = "idle"
       /\ tcmd[t] = "navi_to"
       /\ tres[t] = Buggy
       /\ tpc[u] = "idle"
       /\ tcmd[u] = "is_ready"
       /\ tres[u] = Ok
       /\ Len(wire_reqs) = 1

(***************************************************************************)
(* Claims about the streaming of a body to disk.                            *)
(***************************************************************************)
\* C10: when from_stream has streamed a body of content_length bytes to disk
\* with (insig_head, insig_tail) and returned Ok, the file holds exactly the
\* body bytes [insig_head, content_length - insig_tail), however the body was
\* split across socket reads.
C10_FileIsBodySlice ==
    (spc = "returned" /\ persist_res = "Ok" /\ pbody_path = "Some")
        => pbody_file = [k \in 1..(msgbody_len - insig_head - insig_tail) |->
                            insig_head + k]

\* C11, as claimed: without a persistence path the body field of a parsed
\* response holds the bytes [insig_head, content_length - insig_tail) of the
\* content_length body bytes read.
C11_BodyIsSlice ==
    (spc = "returned" /\ persist_res = "Ok" /\ pbody_path = "None")
        => /\ stream_pos = msgbody_len
           /\ msgbody = [k \in 1..(msgbody_len - insig_head - insig_tail) |->
                            insig_head + k]

\* C11, amended: without a persistence path a response that from_stream
\* returns has had exactly content_length body bytes read; its body field
\* holds the bytes [insig_head, content_length - insig_tail) when the status
\* code is 200, and the whole body when it is not.
C11_BodyIsSliceOn200 ==
    (spc = "returned" /\ persist_res = "Ok" /\ pbody_path = "None")
        => /\ stream_pos = msgbody_len
           /\ status_code = "200 " =>
                 msgbody = [k \in 1..(msgbody_len - insig_head - insig_tail) |->
                               insig_head + k]
           /\ status_code # "200 " => msgbody = [k \in 1..msgbody_len |-> k]
C11_Witness ==
    /\ spc = "returned"
    /\ persist_res = "Ok"
    /\ pbody_path = "None"
    /\ status_code = "200 "
    /\ insig_head = 1
    /\ insig_tail = 1
    /\ msgbody = <<2>>

\* the status of the parsed response: the code bytes, then the reason phrase
ParsedResp == Resp(<<status_code, reason>>, GarbageBody)

\* C12: for every response that from_stream returns, is_ok() is true exactly
\* when its status starts with 200.
C12_IsOkIffStarts200 ==
    (spc = "returned" /\ persist_res = "Ok")
        => (is_ok(ParsedResp) <=> status_code = "200 ")

(***************************************************************************)
(* Claims about the WebSocket codec.                                        *)
(***************************************************************************)
\* set_message_data has returned Ok: the message is produced
WsProduced == ws_pc \in {"encoded", "sent", "decoded"}
HasFin(f) == f.ops >= 128
Opcode(f) == f.ops % 16

\* C13: in every message that encoding a payload produced, the last frame
\* carries FIN = 1 and no other frame does.
C13_OneFinLast ==
    WsProduced
        => /\ Len(frames) >= 1
           /\ \A k \in 1..Len(frames) : HasFin(frames[k]) <=> k = Len(frames)
C13_Witness ==
    /\ ws_pc = "encoded"
    /\ Len(frames) = 3
    /\ HasFin(frames[3])

\* C14, as claimed: in every message that encoding a payload produced, the
\* first frame carries the text or the binary opcode and every other frame
\* carries opcode 0.
C14_FirstTextOrBinary ==
    WsProduced
        => \A k \in 1..Len(frames) :
              IF k = 1 THEN Opcode(frames[k]) \in {1, 2} ELSE Opcode(frames[k]) = 0

\* C14, amended: in every message that encoding a payload produced, every
\* frame but the first carries opcode 0, and the first frame carries the
\* pong opcode 0xA when Pong was among the settings, else the ping opcode 0x9
\* when Ping was, else the text opcode 1 when the last of TextMsg / BinaryMsg
\* was TextMsg, else the binary opcode 2.
C14_FirstOpcode ==
    WsProduced
        => \A k \in 1..Len(frames) :
              IF k > 1 THEN Opcode(frames[k]) = 0
              ELSE Opcode(frames[k]) =
                      (IF \E j \in 1..Len(setts) : setts[j] = Sett("Pong", 0) THEN 10
                       ELSE IF \E j \in 1..Len(setts) : setts[j] = Sett("Ping", 0) THEN 9
                       ELSE IF \E j \in 1..Len(setts) :
                                  /\ setts[j] = Sett("TextMsg", 0)
                                  /\ \A i \in (j + 1)..Len(setts) : setts[i] # Sett("BinaryMsg", 0)
                            THEN 1
                       ELSE 2)
C14_Witness ==
    /\ ws_pc = "encoded"
    /\ Len(frames) = 2
    /\ Opcode(frames[1]) = 9
    /\ Opcode(frames[2]) = 0

\* C15: encoding a payload P under a maximal frame length L (the MaxFrameLen
\* setting, or the default of the allowed size kinds) produces exactly
\* ceil(|P| / L) frames.
C15_FewestFrames ==
    WsProduced
        => Len(frames) =
              (IF ws_sett.max_flen.max THEN 1
               ELSE (Len(bin_data) + ws_sett.max_flen.n - 1) \div ws_sett.max_flen.n)
C15_Witness ==
    /\ ws_pc = "encoded"
    /\ Len(bin_data) = 3
    /\ ws_sett.max_flen = Usize(2)
    /\ Len(frames) = 2

\* C16: a payload that was encoded into frames, written to the stream and
\* decoded from it comes back as the concatenation of the decoded frames'
\* payloads, and masking it twice with any key gives it back.
C16_RoundTrip ==
    /\ ws_pc = "decoded" => ws_data = [res |-> "Ok", data |-> bin_data]
    /\ ws_pc # "panicked"
    /\ ws_pc \in {"new", "framing", "encoded", "sent", "decoded"}
          => \A key \in MaskKeys : apply_mask(apply_mask(bin_data, key), key) = bin_data
C16_Witness ==
    /\ ws_pc = "decoded"
    /\ Len(rframes) = 2
    /\ rframes[1].mkey = FixedMaskKey
    /\ ws_data.data = bin_data
    /\ Len(bin_data) = 3
    /\ ws_wire # message_to_vec([k \in 1..Len(frames) |->
                                    [frames[k] EXCEPT !.mkey = <<>>]])

\* C17: the size kind chosen for a frame of length F under the allowed set A
\* is the smallest kind of A whose cap is at least F, and frame creation
\* fails with SizeKindNotFound when A holds no such kind.
C17_SmallestFittingKind ==
    ws_pc = "created"
        => LET \* the size kinds in ascending order of their caps
               KindRank(kind) == CASE kind = "S" -> 1 [] kind = "M" -> 2 [] OTHER -> 3
               KindOfRank(r) == CASE r = 1 -> "S" [] r = 2 -> "M" [] OTHER -> "L"
               fitting == {r \in 1..3 :
                             size_kinds[r] /\ fits_size_kind(KindOfRank(r), probe_flen)}
           IN IF fitting = {}
              THEN probe_res = "SizeKindNotFound"
              ELSE /\ probe_res \in {"S", "M", "L"}
                   /\ KindRank(probe_res) \in fitting
                   /\ \A r \in fitting : KindRank(probe_res) <= r
C17_Witness ==
    /\ ws_pc = "created"
    /\ size_kinds = <<TRUE, FALSE, TRUE>>
    /\ probe_flen = 126
    /\ probe_res = "L"

\* C18: every frame of a message that a BiDi command encodes and sends is
\* written with the MASK bit set and its 4-byte key after the length.
C18_ClientFramesMasked ==
    ws_origin = "bidi"
        => /\ ws_pc \in {"sent", "decoded"} =>
                 \A k \in 1..Len(frames) :
                    /\ frames[k].mkey = FixedMaskKey
                    /\ frame_to_vec(frames[k])[2] >= 128
           /\ ws_pc = "decoded" =>
                 /\ Len(rframes) = Len(frames)
                 /\ \A k \in 1..Len(rframes) : rframes[k].mkey = FixedMaskKey
C18_Witness ==
    /\ ws_origin = "bidi"
    /\ ws_pc = "decoded"
    /\ Len(rframes) = 1
    /\ rframes[1].mkey = FixedMaskKey
    /\ rframes[1].plen = 3

(***************************************************************************)
(* Claims about the capability request.                                     *)
(***************************************************************************)
\* both records specify a value for one of the capabilities on which two
\* records can conflict: the W3C ones (proxy and timeouts are specified as a
\* whole) and the vendor's
ConflictsWith(a, b) ==
    \/ \E f \in {"browser_name", "browser_version", "platform_name",
                 "accept_insecure_certs", "page_load_strategy", "proxy",
                 "window_rect", "timeouts", "strict_file_interactability",
                 "unhandled_prompt_behavior"} :
          a[f] # None /\ b[f] # None
    \/ \E f \in DOMAIN a.ext \cap {"binary", "args", "profile"} :
          a.ext[f] # None /\ b.ext[f] # None

\* C19: whatever calls of allow, allow_as_w3c, mandate and mandate_as_w3c
\* were made on a capability request, no entry of first_match conflicts with
\* always_match.
C19_NoConflictInFirstMatch ==
    requ_vendor \in {"gecko", "chrom"}
        => \A k \in 1..Len(first_match) : ~ConflictsWith(always_match, first_match[k])
C19_Witness ==
    /\ requ_op = "mandate_as_w3c"
    /\ Len(requ_before.first_match) = 1
    /\ ConflictsWith(always_match, requ_before.first_match[1])
    /\ first_match = <<>>

\* C20: allow(c) leaves always_match as it was; it appends c to first_match
\* when c does not conflict with always_match, and leaves first_match as it
\* was when c does.
C20_AllowAppendsIffNoConflict ==
    requ_op = "allow"
        => /\ always_match = requ_before.always_match
           /\ IF ConflictsWith(requ_before.always_match, requ_other)
              THEN first_match = requ_before.first_match
              ELSE first_match = Append(requ_before.first_match, requ_other)
C20_Witness ==
    /\ requ_op = "allow"
    /\ requ_vendor = "gecko"
    /\ always_match.platform_name = Some("linux")
    /\ requ_other.platform_name = Some("win")
    /\ first_match = <<>>
    /\ requ_before.first_match = <<>>

(***************************************************************************)
(* Claims about the HTTP codec and the WebSocket handshake.                *)
(***************************************************************************)
\* C25: when the server answers the handshake with a status line and
\* headers, try_as_client returns Ok only when the server answered the status
\* 101 Switching Protocols or 101 WebSocket Protocol Handshake with a
\* Sec-WebSocket-Accept of GsCYk86TcY3D9uBDLZuG5FmeV3Y=, and whenever it does
\* not return Ok it returns HandshakeFail1 or HandshakeFail2.
C25_HandshakeOutcome ==
    (h_pc = "hs_done" /\ h_peer.status # <<>>)
        => /\ hs_res = "Ok"
                => /\ h_peer.status \in {<<"1", "0", "1", " ", "S", "w", "i",
                      "t", "c", "h", "i", "n", "g", " ", "P", "r", "o", "t",
                            "o", "c", "o", "l", "s">>,
                                         <<"1", "0", "1", " ", "W", "e", "b",
                                               "S", "o", "c", "k", "e", "t",
                                                     " ", "P", "r", "o", "t",
                                                           "o", "c", "o",
                                                                 "l", " ",
                                                                       "H",
                                                                             "a", "n", "d", "s", "h", "a", "k", "e">>}
                   /\ h_peer.getter = "get_ws_accept"
                   /\ h_peer.val = <<"G", "s", "C", "Y", "k", "8", "6", "T",
                         "c", "Y", "3", "D", "9", "u", "B", "D", "L", "Z",
                               "u", "G", "5", "F", "m", "e", "V", "3", "Y",
                                     "=">>
           /\ hs_res # "Ok" => hs_res \in {"HandshakeFail1", "HandshakeFail2"}

\* C26: a request a caller built and sent is read back by from_stream as a
\* request with the same method, URI, version, header lines and body.
C26_RequestRoundTrip ==
    (h_pc = "decoded" /\ h_peer = NoPeerLine)
        => LET Lines(buf) ==
                  LET Starts == {1} \cup {k + 2 : k \in {j \in 1..(Len(buf) - 1) :
                                              buf[j] = "CR" /\ buf[j + 1] = "LF"}}
                      End(i) == LET cr == IndexAfter(buf, i - 1, "CR")
                                IN IF cr = 0 THEN Len(buf) ELSE cr - 1
                  IN {SubSeq(buf, i,
                        End(i)) : i \in {k \in Starts : k <= Len(buf)}}
                     \ {<<>>}
           IN /\ h_dec.kind = "Ok"
              /\ h_dec.val.method = h_req.method
              /\ h_dec.val.requri = h_req.requri
              /\ h_dec.val.httpver = h_req.httpver
              /\ Lines(h_dec.val.headers) = Lines(h_req.headers)
              /\ h_dec.val.msgbody = h_req.msgbody

\* C30: a getter called on headers holding its header, the name written as
\* the setters write it or in small letters, returns the value of the header
\* without the spaces before and after it (get_content_length: the number
\* it spells).
C30_LookupEitherCase ==
    (/\ h_pc = "looked"
     /\ h_peer.getter = h_get.getter
     /\ h_peer.cap \in {"canon", "lower"})
        => h_get.res = HttpRes("Ok", IF h_get.getter = "get_content_length"
                                     THEN 2 ELSE h_peer.val)

\* C21: mandate(c) makes c the always_match and keeps of first_match, in
\* their order, exactly the entries that do not conflict with c.
C21_MandatePurges ==
    requ_op = "mandate"
        => LET keep(x) == ~ConflictsWith(requ_other, x)
           IN /\ always_match = requ_other
              /\ first_match = SelectSeq(requ_before.first_match, keep)
C21_Witness ==
    /\ requ_op = "mandate"
    /\ Len(requ_before.first_match) = 1
    /\ first_match = requ_before.first_match
    /\ always_match.ext.binary # None
    /\ first_match[1].ext.args # None

\* C22: is_conflict_with says that two capability records conflict exactly
\* when both hold a value for one of browser_name, browser_version,
\* platform_name, accept_insecure_certs, page_load_strategy, proxy_type,
\* window_rect, timeouts_script, strict_file_interactability,
\* unhandled_prompt_behavior, binary, args or profile, and
\* is_conflict_with_as_w3c exactly when both hold a value for one of the
\* first ten; a record holds a proxy_type when it has a proxy block and a
\* timeouts_script when it has a timeouts block.
C22_ConflictIffSharedField ==
    requ_op # ""
        => LET W3c == {"browser_name", "browser_version", "platform_name",
                       "accept_insecure_certs", "page_load_strategy", "proxy",
                       "window_rect", "timeouts", "strict_file_interactability",
                       "unhandled_prompt_behavior"}
               Vendor == {"binary", "args", "profile"}
               Holds(c, f) == IF f \in W3c THEN c[f] # <<>>
                              ELSE f \in DOMAIN c.ext /\ c.ext[f] # <<>>
               Pairs == {<<requ_before.always_match, requ_other>>,
                         <<always_match, requ_other>>}
                        \cup {<<always_match, requ_before.first_match[k]>> :
                                 k \in 1..Len(requ_before.first_match)}
           IN \A p \in Pairs :
                 /\ is_conflict_with(requ_vendor, p[1], p[2])
                       <=> \E f \in W3c \cup Vendor : Holds(p[1], f) /\ Holds(p[2], f)
                 /\ is_conflict_with_as_w3c(p[1], p[2])
                       <=> \E f \in W3c : Holds(p[1], f) /\ Holds(p[2], f)
C22_Witness ==
    /\ requ_op = "allow"
    /\ requ_vendor = "gecko"
    /\ is_conflict_with(requ_vendor, always_match, requ_other)
    /\ ~is_conflict_with_as_w3c(always_match, requ_other)
    /\ always_match.ext.binary = <<"/usr/bin/browser">>
    /\ requ_other.ext.binary = <<"/tmp/profile">>

(***************************************************************************)
(* Claims about serialization and deserialization.                         *)
(***************************************************************************)

\* C27: in a serialized capability every key written belongs to a field that
\* is present (an absent field is omitted, in the capability, in its proxy
\* object and in the vendor extension object); the vendor extension object is
\* written only when at least one of its fields is present, and then it is
\* not empty; an insignificant vendor block is not written at all.
C27_AbsentFieldsOmitted ==
    ser_in # <<>> /\ ser_in.op = "serialize" /\ ser_out # <<>> =>
        LET c == ser_in.capa
            vkey == IF ser_in.vendor = "gecko" THEN "moz:firefoxOptions"
                    ELSE "goog:chromeOptions"
            Rust == [browserName |-> "browser_name",
                     browserVersion |-> "browser_version",
                     platformName |-> "platform_name",
                     acceptInsecureCerts |-> "accept_insecure_certs",
                     strictFileInteractability |-> "strict_file_interactability",
                     proxy |-> "proxy", timeouts |-> "timeouts",
                     webSocketUrl |-> "wsurl",
                     args |-> "args", binary |-> "binary", profile |-> "profile",
                     prefs |-> "prefs", extensions |-> "extensions",
                     detach |-> "detach", debuggerAddress |-> "debugger_address",
                     excludeSwitches |-> "exclude_switches",
                     minidumpPath |-> "minidump_path",
                     windowTypes |-> "window_types",
                     proxyType |-> "proxy_type",
                     proxyAutoconfigUrl |-> "proxy_autoconfig_url",
                     ftpProxy |-> "ftp_proxy", httpProxy |-> "http_proxy",
                     noProxy |-> "no_proxy", sslProxy |-> "ssl_proxy",
                     socksProxy |-> "socks_proxy",
                     socksVersion |-> "socks_version"]
            present == \E n \in DOMAIN c.ext : c.ext[n] # None
        IN /\ \A k \in 1..Len(ser_out[1].v) :
                LET key == ser_out[1].v[k][1]
                    val == ser_out[1].v[k][2]
                IN IF key = vkey
                   THEN /\ present
                        /\ val.v # <<>>
                        /\ \A j \in 1..Len(val.v) : c.ext[Rust[val.v[j][1]]] # None
                   ELSE /\ c[Rust[key]] # None
                        /\ key = "proxy" =>
                              \A j \in 1..Len(val.v) :
                                 c.proxy[1][Rust[val.v[j][1]]]
                                     # ProxyDefault[Rust[val.v[j][1]]]
           /\ ~present => \A k \in 1..Len(ser_out[1].v) : ser_out[1].v[k][1] # vkey

\* a capability with a browser name and prefs and nothing else is written as
\* the browser name and the vendor extension object holding the prefs alone
C27_Witness ==
    /\ ser_in # <<>>
    /\ ser_in.op = "serialize"
    /\ ser_in.vendor = "gecko"
    /\ ser_in.capa.browser_name # None
    /\ ser_in.capa.platform_name = None
    /\ ser_in.capa.ext.prefs # None
    /\ ser_in.capa.ext.binary = None
    /\ ser_out # <<>>
    /\ Len(ser_out[1].v) = 2
    /\ ser_out[1].v[1][1] = "browserName"
    /\ ser_out[1].v[2][1] = "moz:firefoxOptions"
    /\ Len(ser_out[1].v[2][2].v) = 1
    /\ ser_out[1].v[2][2].v[1][1] = "prefs"

\* C28: prefs are serialized with JSON-typed values: a pref value "true" or
\* "false" is written as a JSON boolean, every value that is a decimal
\* integer (an optional sign and decimal digits) as a JSON integer, and every
\* other value as a JSON string.
C28_PrefsTyped ==
    ser_in # <<>> /\ ser_in.op = "serialize" /\ ser_out # <<>>
        /\ ser_in.capa.ext.prefs # None =>
        LET map == ser_in.capa.ext.prefs[1]
            vkey == IF ser_in.vendor = "gecko" THEN "moz:firefoxOptions"
                    ELSE "goog:chromeOptions"
            ext == (CHOOSE e \in Range(ser_out[1].v) : e[1] = vkey)[2]
            written == (CHOOSE e \in Range(ext.v) : e[1] = "prefs")[2]
            DecDigits == {"0", "1", "2", "3", "4", "5", "6", "7", "8", "9"}
            Decimal(value) ==
                LET body == IF value # <<>> /\ Head(value) \in {"+", "-"}
                            THEN Tail(value) ELSE value
                IN body # <<>> /\ \A k \in 1..Len(body) : body[k] \in DecDigits
        IN /\ Len(written.v) = Len(map)
           /\ \A k \in 1..Len(map) :
                LET value == map[k][2]
                    json == written.v[k][2]
                IN /\ written.v[k][1] = map[k][1]
                   /\ IF value = <<"t", "r", "u", "e">> THEN json = JSON("bool", TRUE)
                      ELSE IF value = <<"f", "a", "l", "s", "e">>
                           THEN json = JSON("bool", FALSE)
                      ELSE IF Decimal(value) THEN json.t = "number"
                      ELSE json = JSON("string", value)

\* C29: deserializing a capability, proxy, timeouts or session-result object
\* in which a known key occurs more than once fails with a parse error.
C29_DuplicateKeyIsError ==
    ser_in # <<>> /\ ser_in.op = "deserialize" /\ ser_out # <<>> =>
        ((\E i, j \in 1..Len(ser_in.keys) :
             /\ i < j
             /\ ser_in.keys[i] = ser_in.keys[j]
             /\ ser_in.keys[i] \in Range(KnownKeys[ser_in.kind]))
         => ser_out[1] = "Err")

(***************************************************************************)
(* Claims about the order of the stream lock.                              *)
(***************************************************************************)

\* C31 (as the specification states it): commands acquire the stream lock in
\* the order they call it: the command that acquires the lock is the one
\* that has waited for it the longest.
C31_LockInCallOrder ==
    [][\A t \in Threads :
          tpc[t] = "lock" /\ tpc'[t] = "locked" => Head(lock_waiters) = t]_vars

\* C31 (amended): the stream lock passes to one of the commands waiting
\* for it, and only while no other command holds it; which of several
\* commands waiting at once gets it is not determined.
C31_LockGrantedToWaiter ==
    [][\A t \in Threads :
          stream_lock'.holder = t /\ stream_lock.holder # t
             => /\ t \in Range(lock_waiters)
                /\ t \notin Range(lock_waiters')
                /\ stream_lock.holder = NoThread
                /\ \A u \in Threads \ {t} : tpc'[u] \notin {"locked", "sent"}]_vars

\* two commands waited at once: one of them holds the lock, the other still
\* waits
C31_Witness ==
    /\ \E t \in Threads :
          /\ stream_lock.holder = t
          /\ tpc[t] = "locked"
          /\ lock_waiters # <<>>
          /\ \A u \in Range(lock_waiters) : tpc[u] = "lock" /\ tcall[u] = 1
          /\ ncalls = 2

(***************************************************************************)
(* Claims about the retry budget of init.                                  *)
(***************************************************************************)

\* C32: the retry loops sleep wait_each_round microseconds a retry and stop
\* when the budget of ready_timeout seconds is used up: the retries of the
\* two loops together never exceed ready_timeout * 10000, and as long as the
\* driver has answered nothing but a transient busy condition init does not
\* abort and, once it has returned, has returned an error.
C32_BusyDriverEndsInError ==
    LET Busy == {r \in Responses :
                    \/ is_ready(r) = DriverNotReadyBusySession
                    \/ session_result(r) = BusyCreateSession}
    IN /\ already_wait \div wait_each_round <= ready_timeout * 10000
       /\ ipc = "panicked" => last_resp \notin Busy \cup {NoResp}
       /\ ipc = "returned" /\ cmd_res = NoRes /\ last_resp \in Busy \cup {NoResp}
             => init_res \notin {Ok, NoRes}

(***************************************************************************)
(* Claims about the end of a streamed body and about small bodies.         *)
(***************************************************************************)

\* C33: once the file is open, streaming a body to disk returns success, with
\* the file path in msgbody_persist, if and only if the count of remaining
\* bytes reached 0 (content_length body bytes were read); when the stream
\* ends or a read fails before that, parsing fails with IncompleteFinish, and
\* no path is reported unless the call succeeded.
C33_SuccessIffAllRead ==
    LET ended == spc \in {"returned", "panicked"}
        success == spc = "returned" /\ persist_res = "Ok"
    IN pbody_path = "Some" /\ ended /\ persist_res # "PersistBodyPathNotFound" =>
          /\ success <=> nleft = 0
          /\ nleft = 0 => stream_pos = msgbody_len
          /\ nleft # 0 /\ persist_res \notin {"InvalidContentLength", "PersistBodyWrite"}
                => spc = "returned" /\ persist_res = "IncompleteFinish"

\* C36: for a response whose content_length is smaller than insig_head +
\* insig_tail, read into memory or streamed to disk, response parsing ends
\* with a returned response or a codec error once the body bytes are read:
\* it does not abort.
C36_SmallBodyNeverAborts ==
    msgbody_len < insig_head + insig_tail /\ stream_pos = msgbody_len
        => spc # "panicked"

(***************************************************************************)
(* Claims about what init does after the status polling.                   *)
(***************************************************************************)

\* C34: when the status polling of init has stopped on an outcome that is
\* not transient (is_ready returned an error other than
\* DriverNotReadyBusySession), init sends no POST /session afterwards and,
\* once it has returned, has returned an error.
C34_NoSessionAfterFailedStatus ==
    rdy_res \notin {NoRes, Ok, DriverNotReadyBusySession} =>
        /\ sent # PostSession
        /\ ipc = "returned" => init_res # Ok

\* C35: for every ready_timeout the budget of the polling loops is
\* ready_timeout * 1000000 microseconds (said by quotient and remainder, the
\* product of a large ready_timeout being beyond the integers at hand), and
\* init does not abort before its first request.
C35_BudgetIsTimeoutInMicros ==
    LET MicrosPerSec == MicrosPerSecOdd * MicrosPerSecPow2 IN
    /\ ipc \in {"rdy_loop", "sess_loop"} =>
          /\ ready_timeout_in_micros \div MicrosPerSec = ready_timeout
          /\ ready_timeout_in_micros % MicrosPerSec = 0
    /\ ~(ipc = "panicked" /\ sent = NoReq)

(***************************************************************************)
(* Claims about the WebSocket stream of a BiDi client.                     *)
(***************************************************************************)

\* what gen_ctx, navi and ctx_tree do first:
\*   if self.ws_stream.is_none() { return Err(WebDriverRemoteConnectionFailed) }
bidi_precheck(ws) ==
    IF ws = "None" THEN WebDriverRemoteConnectionFailed ELSE Ok

\* C38: when bidi::init has returned a client, the second TCP stream has
\* been opened, the handshake has succeeded and the stream is stored, so a
\* BiDi command does not fail with WebDriverRemoteConnectionFailed for want
\* of the WebSocket stream.
C38_BidiClientHasWsStream ==
    variant = "bidi_init" /\ ipc = "returned" /\ init_res = Ok
        => /\ ws_stream = "Some"
           /\ bidi_precheck(ws_stream) # WebDriverRemoteConnectionFailed

(***************************************************************************)
(* Claims about the fields of a capability.                                *)
(***************************************************************************)

\* C39: every W3C capability that has been set on a capability, including
\* pageLoadStrategy, setWindowRect and unhandledPromptBehavior, is written
\* in the serialized capability under its name with the value that was set.
C39_SetFieldsSerialized ==
    ser_in # <<>> /\ ser_in.op = "serialize" /\ ser_out # <<>> =>
        LET c == ser_in.capa
            Names == [browser_name |-> "browserName",
                      browser_version |-> "browserVersion",
                      platform_name |-> "platformName",
                      accept_insecure_certs |-> "acceptInsecureCerts",
                      page_load_strategy |-> "pageLoadStrategy",
                      window_rect |-> "setWindowRect",
                      strict_file_interactability |-> "strictFileInteractability",
                      unhandled_prompt_behavior |-> "unhandledPromptBehavior"]
            Written(key) == {e \in Range(ser_out[1].v) : e[1] = key}
        IN /\ \A f \in DOMAIN Names :
                c[f] # None =>
                   \E e \in Written(Names[f]) : e[2].v = c[f][1]
           /\ c.proxy # None =>
                 \E e \in Written("proxy") : e[2] = serialize_proxy(c.proxy[1])
           /\ c.timeouts # None =>
                 \E e \in Written("timeouts") :
                    e[2] = serialize_timeouts(c.timeouts[1])
           /\ c.wsurl # None => Written("webSocketUrl") # {}

\* C40: set_profile and set_profile_take on a Firefox capability make
\* profile() return the given value and leave binary and every other field
\* of the capability as they were.
C40_SetProfileSetsProfileOnly ==
    ser_in # <<>> /\ ser_in.op = "set_profile" /\ ser_out # <<>> =>
        LET before == ser_in.capa
            after == ser_out[1]
            others == Range(W3cFields \o ExtFields("gecko"))
                         \ {Fld("ext", "profile")}
        IN /\ get_field(after, Fld("ext", "profile")) = Some(ser_in.arg)
           /\ \A f \in others : get_field(after, f) = get_field(before, f)

\* C37, as claimed: after any sequence of set_message_data calls on one
\* WebSocketMessage, failing calls included, a failed call has added no frame
\* and the frames encode exactly the payload of the last successful call,
\* with one FIN frame, the last.
C37_FramesEncodeLastCall ==
    ws_pc \in {"encoded", "failed"}
        => LET calls == Append(ws_prev, [res |-> ws_res, data |-> bin_data,
                                         nframes |-> Len(frames)])
               oks == {k \in 1..Len(calls) : calls[k].res = "Ok"}
           IN /\ \A k \in 1..Len(calls) :
                    calls[k].res # "Ok"
                       => calls[k].nframes = (IF k = 1 THEN 0 ELSE calls[k - 1].nframes)
              /\ oks # {}
                    => /\ get_message_data(frames) =
                             [res |-> "Ok",
                              data |-> calls[CHOOSE k \in oks : \A j \in oks : j <= k].data]
                       /\ \A k \in 1..Len(frames) :
                             HasFin(frames[k]) <=> k = Len(frames)

====
